---- MODULE Spec2Model ----
(***************************************************************************)
(* Answer verification and telemetry of the analytics chatbot backend.     *)
(*                                                                         *)
(*   backend/kpi_verifier.py  extract_numeric_claims, recompute_metrics,   *)
(*                            verify_answer                                *)
(*   backend/metrics.py       find_column and the metric library           *)
(*   backend/app.py           analyze_dataset, before/after_request        *)
(*                            telemetry, write_trace_log                   *)
(*                                                                         *)
(* Representation.  A Python str is a sequence of one-character strings,   *)
(* so that `in`, lower() and the regular expressions are computed on the   *)
(* characters.  A float is an exact rational <<num, den>> with den > 0 in  *)
(* lowest terms; the numbers drawn below are short decimals, on which the  *)
(* float operations of the code are exact.  Python's None is NoneStr where *)
(* a str is expected and a tagged value elsewhere.                         *)
(***************************************************************************)
EXTENDS Integers, Sequences, FiniteSets, TLC

VARIABLES
  pc,        \* position of the call / request being modelled
  text,      \* answer text handed to extract_numeric_claims / verify_answer
  table,     \* the DataFrame slice
  tol,       \* tolerance_pct
  claims,    \* claim list (extracted, or handed to recompute_metrics)
  results,   \* verification results recompute_metrics returned
  summary,   \* verification summary verify_answer returned
  env,       \* module state of app.py: configuration flags, loaded agents
  request,   \* the HTTP request: dataset of the path, filters, agent outcome
  flask_g,   \* flask.g of the request
  response,  \* the response the view function produced
  returned,  \* the response after_request_telemetry returned
  trace_call, \* the last call of write_trace_log and how it ended
  trace_file, \* lines of the current day's trace file
  log_dir,   \* names of the files present in the traces directory
  handlers,  \* the request handlers that share the trace file
  read_back, \* the records the last read_traces returned
  panel,     \* the KPI panel the last rollup returned
  clock,     \* the server's clock (datetime.utcnow())
  col_candidates, \* candidate names handed to find_column
  col_found, \* the column find_column returned
  metric_out, \* what the metric functions returned for the table
  global_schema_dict, \* schema_dict._global_schema_dict: None or a SchemaDict
  validate_cache, \* the lru_cache of cached_validate_references
  callers,   \* the threads that call into the schema dictionary
  tz_offset, \* hours the server's local clock is ahead of UTC
  day_files  \* the lines of each day file of the traces directory

kpiVars == <<text, table, tol, claims, results, summary>>

httpVars == <<env, request, flask_g, response, returned, trace_call, trace_file>>

storeVars == <<log_dir, handlers, read_back, panel, clock>>

colVars == <<col_candidates, col_found>>

metricVars == <<metric_out>>

schemaVars == <<global_schema_dict, validate_cache, callers>>

dayVars == <<tz_offset, day_files>>

restVars == <<metricVars, schemaVars, dayVars>>

vars == <<pc, kpiVars, httpVars, storeVars, colVars, restVars>>

\* None where a str may stand (no str is a one-element sequence holding "None")
NoneStr == <<"None">>

\* None where a DataFrame or a SchemaDict may stand
NoneObj == [none |-> TRUE]

BoundedSeq(S, n) == UNION {[1..k -> S] : k \in 0..n}

(***************************************************************************)
(* Strings                                                                 *)
(***************************************************************************)

StartsAt(s, sub, i) ==
  /\ i + Len(sub) - 1 <= Len(s)
  /\ \A k \in 1..Len(sub) : s[i + k - 1] = sub[k]

\* Python `sub in s`
Contains(sub, s) == \E i \in 1..(Len(s) + 1) : StartsAt(s, sub, i)

\* str.lower() on the letters the model uses
LowerChar(c) ==
  CASE c = "A" -> "a" [] c = "C" -> "c" [] c = "D" -> "d" [] c = "F" -> "f"
    [] c = "H" -> "h" [] c = "I" -> "i" [] c = "S" -> "s" [] c = "T" -> "t"
    [] c = "U" -> "u" [] OTHER -> c

Lower(s) == [i \in 1..Len(s) |-> LowerChar(s[i])]

(***************************************************************************)
(* Numbers                                                                 *)
(***************************************************************************)

Abs(x) == IF x < 0 THEN -x ELSE x

RECURSIVE Gcd(_, _)
Gcd(a, b) == IF b = 0 THEN a ELSE Gcd(b, a % b)

Norm(r) ==
  LET g == Gcd(Abs(r[1]), r[2]) IN <<r[1] \div g, r[2] \div g>>

RInt(n) == <<n, 1>>
RSub(a, b) == Norm(<<a[1] * b[2] - b[1] * a[2], a[2] * b[2]>>)
RAbs(a) == <<Abs(a[1]), a[2]>>
RLe(a, b) == a[1] * b[2] <= b[1] * a[2]
RLt(a, b) == a[1] * b[2] < b[1] * a[2]
\* a / b for b > 0
RDiv(a, b) == Norm(<<a[1] * b[2], a[2] * b[1]>>)

\* the default of tolerance_pct, and config.TOLERANCE_PCT
DefaultTolerance == <<1, 50>>

RECURSIVE Pow10(_)
Pow10(n) == IF n = 0 THEN 1 ELSE 10 * Pow10(n - 1)

DigitVal(c) ==
  CASE c = "0" -> 0 [] c = "1" -> 1 [] c = "2" -> 2 [] c = "3" -> 3
    [] c = "4" -> 4 [] c = "5" -> 5 [] c = "6" -> 6 [] c = "7" -> 7
    [] c = "8" -> 8 [] c = "9" -> 9

IsDigit(c) == c \in {"0", "1", "2", "3", "4", "5", "6", "7", "8", "9"}

RECURSIVE DigitsValue(_)
DigitsValue(ds) ==
  IF Len(ds) = 0 THEN 0
  ELSE 10 * DigitsValue(SubSeq(ds, 1, Len(ds) - 1)) + DigitVal(ds[Len(ds)])

\* float(tok) on a token of the regex class [\d.]+ : ValueError (NoFloat)
\* unless it holds at most one dot and at least one digit.
NoFloat == <<0, 0>>

ParseFloat(tok) ==
  LET dots == {i \in 1..Len(tok) : tok[i] = "."}
      digits == SelectSeq(tok, IsDigit)
  IN  IF Cardinality(dots) > 1 \/ Len(digits) = 0 THEN NoFloat
      ELSE LET places == IF dots = {} THEN 0
                         ELSE Len(tok) - (CHOOSE i \in dots : TRUE)
           IN  Norm(<<DigitsValue(digits), Pow10(places)>>)

(***************************************************************************)
(* extract_numeric_claims                                                  *)
(*                                                                         *)
(* The text is a sequence of fragments, each the groups of one regex match *)
(* (patterns 1-4), one ```facts block, or prose that matches nothing.      *)
(***************************************************************************)

NoJson == [shape |-> "none", hasMetrics |-> FALSE, metrics |-> <<>>,
           hasFilters |-> FALSE, team |-> NoneStr, resource |-> NoneStr]

Frag(kind, name, tok, units, slice, json) ==
  [kind |-> kind, name |-> name, tok |-> tok, units |-> units,
   slice |-> slice, json |-> json]

\* "name = tok units"
P1(name, tok, units) == Frag("p1", name, tok, units, NoneStr, NoJson)
\* "tok name for slice"
P2(tok, name, slice) == Frag("p2", name, tok, <<>>, slice, NoJson)
\* "average name is tok units"
P3(name, tok, units) == Frag("p3", name, tok, units, NoneStr, NoJson)
\* "tok% of name"
P4(tok, name) == Frag("p4", name, tok, <<>>, NoneStr, NoJson)
\* ```facts ... ```
FactsBlock(json) == Frag("facts", <<>>, <<>>, <<>>, NoneStr, json)
Prose == Frag("prose", <<>>, <<>>, <<>>, NoneStr, NoJson)

\* a JSON object {"filters": {...}, "metrics": {name: lit, ...}}
JsonObject(metrics, team, resource) ==
  [shape |-> "object", hasMetrics |-> TRUE, metrics |-> metrics,
   hasFilters |-> (team # NoneStr \/ resource # NoneStr),
   team |-> team, resource |-> resource]
\* a JSON object without a "metrics" key
JsonNoMetrics ==
  [shape |-> "object", hasMetrics |-> FALSE, metrics |-> <<>>,
   hasFilters |-> FALSE, team |-> NoneStr, resource |-> NoneStr]
\* text json.loads rejects
JsonMalformed == [NoJson EXCEPT !.shape = "malformed"]
\* a JSON number: `"metrics" in 5` is a TypeError
JsonNumber == [NoJson EXCEPT !.shape = "number"]
\* one entry of the metrics map; isnum is isinstance(value, (int, float))
Metric(name, lit, isnum) == [name |-> name, lit |-> lit, isnum |-> isnum]

Claim(name, slice, value, units, raw, ff) ==
  [name |-> name, slice |-> slice, value |-> value, units |-> units,
   raw_text |-> raw, from_facts_block |-> ff]

\* the claim of one match of patterns 1-4, or <<>> on ValueError
MatchClaims(f) ==
  LET v == ParseFloat(f.tok) IN
  IF v = NoFloat THEN <<>>
  ELSE CASE f.kind = "p1" ->
              <<Claim(Lower(f.name), NoneStr, v, f.units,
                      f.name \o <<" ","="," ">> \o f.tok \o f.units, FALSE)>>
         [] f.kind = "p2" ->
              <<Claim(Lower(f.name), f.slice, v, Lower(f.name),
                      f.tok \o <<" ">> \o f.name \o <<" ","f","o","r"," ">> \o f.slice, FALSE)>>
         [] f.kind = "p3" ->
              <<Claim(<<"a","v","g","_">> \o Lower(f.name), NoneStr, v, f.units,
                      <<"a","v","e","r","a","g","e"," ">> \o f.name \o <<" ","i","s"," ">> \o f.tok \o f.units,
                      FALSE)>>
         [] f.kind = "p4" ->
              <<Claim(Lower(f.name), NoneStr, RDiv(v, RInt(100)), <<"%">>,
                      f.tok \o <<"%"," ","o","f"," ">> \o f.name, FALSE)>>

RECURSIVE PatternClaims(_, _)
PatternClaims(t, kind) ==
  IF Len(t) = 0 THEN <<>>
  ELSE (IF Head(t).kind = kind THEN MatchClaims(Head(t)) ELSE <<>>)
       \o PatternClaims(Tail(t), kind)

\* slice_desc of a facts block
SliceDesc(j) ==
  IF ~j.hasFilters THEN NoneStr
  ELSE IF j.team # NoneStr /\ j.resource # NoneStr
       THEN <<"t","e","a","m","=">> \o j.team \o <<","," ">> \o <<"r","e","s","o","u","r","c","e","=">> \o j.resource
  ELSE IF j.team # NoneStr THEN <<"t","e","a","m","=">> \o j.team
  ELSE IF j.resource # NoneStr THEN <<"r","e","s","o","u","r","c","e","=">> \o j.resource
  ELSE NoneStr

RECURSIVE MetricClaims(_, _)
MetricClaims(ms, slice) ==
  IF Len(ms) = 0 THEN <<>>
  ELSE (IF Head(ms).isnum
        THEN <<Claim(Head(ms).name, slice, ParseFloat(Head(ms).lit), <<>>,
                     Head(ms).name \o <<"=">> \o Head(ms).lit, TRUE)>>
        ELSE <<>>)
       \o MetricClaims(Tail(ms), slice)

\* one facts block: JSONDecodeError is swallowed, a non-container raises
BlockRaises(j) == j.shape = "number"

BlockClaims(j) ==
  IF j.shape = "object" /\ j.hasMetrics
  THEN MetricClaims(j.metrics, SliceDesc(j))
  ELSE <<>>

RECURSIVE FactsClaims(_)
FactsClaims(t) ==
  IF Len(t) = 0 THEN <<>>
  ELSE (IF Head(t).kind = "facts" THEN BlockClaims(Head(t).json) ELSE <<>>)
       \o FactsClaims(Tail(t))

FactsRaise(t) ==
  \E i \in 1..Len(t) : t[i].kind = "facts" /\ BlockRaises(t[i].json)

ClaimKey(c) == <<c.name, c.slice, c.value>>

\* a variant of Deduplicate that keeps every claim (sensitivity of C5)
KeepAllClaims(cs) == cs

\* the deduplication loop: unique_claims after the first i claims
RECURSIVE Deduplicate(_)
Deduplicate(cs) ==
  IF Len(cs) = 0 THEN <<>>
  ELSE LET front == SubSeq(cs, 1, Len(cs) - 1)
           last == cs[Len(cs)]
           seen == {ClaimKey(front[i]) : i \in 1..Len(front)}
       IN  IF ClaimKey(last) \notin seen
           THEN Append(Deduplicate(front), last)
           ELSE Deduplicate(front)

\* a variant of RawClaims that puts the facts-block claims first (sensitivity
\* of C6)
RawClaimsFactsFirst(t) ==
  FactsClaims(t) \o PatternClaims(t, "p1") \o PatternClaims(t, "p2")
    \o PatternClaims(t, "p3") \o PatternClaims(t, "p4")

\* claims in the order the code appends them
RawClaims(t) ==
  PatternClaims(t, "p1") \o PatternClaims(t, "p2") \o PatternClaims(t, "p3")
    \o PatternClaims(t, "p4") \o FactsClaims(t)

\* [raised, value]
extract_numeric_claims(t) ==
  IF FactsRaise(t) THEN [raised |-> TRUE, value |-> <<>>]
  ELSE [raised |-> FALSE, value |-> Deduplicate(RawClaims(t))]

\* the summary variable before verify_answer has returned
NoSummary ==
  [has_numeric_claims |-> FALSE, grounded_accuracy_pass |-> "unset",
   claims_verified |-> 0, claims_passed |-> 0, claims_failed |-> 0,
   verification_results |-> <<>>, all_claims |-> <<>>]

\* no filter: the empty dict
NoFilters == [team |-> NoneStr, resource |-> NoneStr]

\* the request_metadata before_request_telemetry stores
NewMetadata(endpoint) ==
  [endpoint |-> endpoint, dataset |-> "None", filters |-> NoFilters,
   error |-> "None", extracted_metrics |-> NoSummary]

\* flask.g of a request no hook has touched
NoG ==
  [start_time |-> FALSE, start_time_model |-> FALSE,
   request_metadata |-> NewMetadata(<<>>)]

NoResponse ==
  [status |-> 0, has_text |-> FALSE, text |-> <<>>, error |-> "None",
   direct_passthrough |-> FALSE]

\* request.headers without X-Session-ID and X-User-ID
NoHeaders == [Host |-> <<"l","o","c","a","l","h","o","s","t">>]

NoCall == [called |-> FALSE, fault |-> "none", raised |-> FALSE]

\* no rollup was made yet
NoPanel == [trace_count |-> -1]

\* no request is being served
NoRequest ==
  /\ env = [ENABLE_TRACING |-> FALSE, INSTRUMENTATION_AVAILABLE |-> TRUE,
            agents |-> {}, schema_dict |-> FALSE]
  /\ request = [dataset |-> "None", filters |-> NoFilters, handle |-> "none",
                references |-> "clean", headers |-> NoHeaders]
  /\ flask_g = NoG
  /\ response = NoResponse
  /\ returned = NoResponse
  /\ trace_call = NoCall

\* the state of the HTTP layer while a library function is called directly
\* no call into the metric library or the schema dictionary, one day file
NoRest ==
  /\ metric_out = <<>>
  /\ global_schema_dict = NoneObj
  /\ validate_cache = <<>>
  /\ callers = <<>>
  /\ tz_offset = 0
  /\ day_files = <<>>

NoHttp ==
  /\ NoRequest
  /\ trace_file = <<>>
  /\ log_dir = {}
  /\ handlers = <<>>
  /\ read_back = <<>>
  /\ panel = NoPanel
  /\ clock = 1
  /\ col_candidates = <<>>
  /\ col_found = NoneStr
  /\ NoRest

(***************************************************************************)
(* Calls of extract_numeric_claims on bounded texts                        *)
(***************************************************************************)

MaxFrags == 2

NoTable == [cols |-> <<>>, rows |-> <<>>]

ExtractFrags ==
  { P1(<<"f","l","o","w","_","e","f","f","i","c","i","e","n","c","y">>, <<"0",".","6","2">>, <<>>),
    P1(<<"H","a","n","d","o","f","f","s">>, <<"1","4">>, <<>>),
    P1(<<"h","a","n","d","o","f","f","s">>, <<"1","4",".","0">>, <<>>),
    P1(<<"c","a","s","e","s">>, <<"1",".","2",".","3">>, <<>>),
    P2(<<"1","4">>, <<"h","a","n","d","o","f","f","s">>, <<"S","a","l","e","s">>),
    P3(<<"d","u","r","a","t","i","o","n">>, <<"4","5",".","2">>, <<"s","e","c","o","n","d","s">>),
    P4(<<"6","2">>, <<"f","l","o","w","_","e","f","f","i","c","i","e","n","c","y">>),
    FactsBlock(JsonObject(<<Metric(<<"f","l","o","w","_","e","f","f","i","c","i","e","n","c","y">>, <<"0",".","6","2">>, TRUE),
                            Metric(<<"h","a","n","d","o","f","f","s">>, <<"1","4">>, TRUE),
                            Metric(<<"d","a","t","a","s","e","t">>, <<"s","f">>, FALSE)>>,
                          NoneStr, NoneStr)),
    FactsBlock(JsonObject(<<Metric(<<"h","a","n","d","o","f","f","s">>, <<"1","4">>, TRUE)>>,
                          <<"S","a","l","e","s">>, NoneStr)),
    FactsBlock(JsonNoMetrics),
    FactsBlock(JsonMalformed),
    FactsBlock(JsonNumber),
    Prose }

InitExtract ==
  /\ pc = "extract_call"
  /\ text \in BoundedSeq(ExtractFrags, MaxFrags)
  /\ table = NoTable
  /\ tol = DefaultTolerance
  /\ claims = <<>>
  /\ results = <<>>
  /\ summary = NoSummary
  /\ NoHttp

CallExtract ==
  /\ pc = "extract_call"
  /\ LET r == extract_numeric_claims(text) IN
       /\ pc' = IF r.raised THEN "extract_raised" ELSE "extract_returned"
       /\ claims' = r.value
  /\ UNCHANGED <<text, table, tol, results, summary>>
  /\ UNCHANGED <<httpVars, storeVars, colVars, restVars>>

SpecExtract == InitExtract /\ [][CallExtract]_vars

\* every claim of patterns 1-4, in extraction order
MatchedClaims(t) ==
  PatternClaims(t, "p1") \o PatternClaims(t, "p2") \o PatternClaims(t, "p3")
    \o PatternClaims(t, "p4")

KeysOf(cs) == {ClaimKey(cs[i]) : i \in 1..Len(cs)}

\* C5: the list extract_numeric_claims returns holds no two claims with the
\* same (name, slice, value) key.
C5_NoDuplicateKeys ==
  pc = "extract_returned" =>
    \A i, j \in 1..Len(claims) :
      i # j => ClaimKey(claims[i]) # ClaimKey(claims[j])

\* C5 witness: a returned list from which deduplication removed a claim.
C5_Witness ==
  /\ pc = "extract_returned"
  /\ Len(claims) >= 1
  /\ Len(RawClaims(text)) > Len(claims)

\* the keys a facts block and a match of patterns 1-4 both supply
SharedKeys(t) == KeysOf(MatchedClaims(t)) \cap KeysOf(FactsClaims(t))

\* C6 as stated: for a key supplied by both a facts block and patterns 1-4,
\* the claim kept is the facts-block one.
C6_FactsBlockKept ==
  pc = "extract_returned" =>
    \A i \in 1..Len(claims) :
      ClaimKey(claims[i]) \in SharedKeys(text) => claims[i].from_facts_block

\* C6 amended: for a key supplied by both, the claim kept is the one of
\* patterns 1-4 (first occurrence, from_facts_block absent); a facts block only
\* contributes claims whose key no match of patterns 1-4 supplies.
C6_FirstOccurrenceKept ==
  pc = "extract_returned" =>
    /\ \A i \in 1..Len(claims) :
         ClaimKey(claims[i]) \in KeysOf(MatchedClaims(text))
           => ~claims[i].from_facts_block
    /\ \A k \in KeysOf(RawClaims(text)) :
         \E i \in 1..Len(claims) : ClaimKey(claims[i]) = k

\* C6 witness: a facts block and a pattern match supplied the same key.
C6_Witness ==
  /\ pc = "extract_returned"
  /\ SharedKeys(text) # {}
  /\ \E i \in 1..Len(claims) : claims[i].from_facts_block

(***************************************************************************)
(* Tables (pandas DataFrame) and backend/metrics.py                        *)
(*                                                                         *)
(* A table is its column names and its rows; a row holds one cell per      *)
(* column.  Durations (seconds) and timestamps (seconds) are integers;     *)
(* case ids, users, teams and activities are strs.  ListCell is a cell of  *)
(* a str column holding a Python list: an unhashable object, on which      *)
(* nunique() and isin() raise TypeError.                                   *)
(***************************************************************************)

ListCell == <<"list">>

Table(cols, rows) == [cols |-> cols, rows |-> rows]

NRows(df) == Len(df.rows)

HasCol(df, c) == \E i \in 1..Len(df.cols) : df.cols[i] = c

ColIndex(df, c) == CHOOSE i \in 1..Len(df.cols) : df.cols[i] = c

\* df[c] as the sequence of its cells
Column(df, c) == [r \in 1..NRows(df) |-> df.rows[r][ColIndex(df, c)]]

SetMin(S) == CHOOSE x \in S : \A y \in S : x <= y
SetMax(S) == CHOOSE x \in S : \A y \in S : x >= y

RECURSIVE SumSeq(_)
SumSeq(s) == IF Len(s) = 0 THEN 0 ELSE Head(s) + SumSeq(Tail(s))

RECURSIVE SumSet(_, _)
SumSet(S, f) ==
  IF S = {} THEN 0
  ELSE LET x == CHOOSE y \in S : TRUE IN f[x] + SumSet(S \ {x}, f)

Values(s) == {s[i] : i \in 1..Len(s)}

find_column(df, candidates) ==
  LET n == Len(df.cols)
      exact == {k \in 1..Len(candidates) :
                  \E i \in 1..n : Lower(df.cols[i]) = Lower(candidates[k])}
      sub == {i \in 1..n :
                \E k \in 1..Len(candidates) :
                  Contains(Lower(candidates[k]), Lower(df.cols[i]))}
  IN  IF exact # {}
      THEN \* cols = {c.lower(): c}: the last column of that lower-cased name
           LET k == SetMin(exact)
           IN  df.cols[SetMax({i \in 1..n :
                                 Lower(df.cols[i]) = Lower(candidates[k])})]
      ELSE IF sub # {} THEN df.cols[SetMin(sub)]
      ELSE NoneStr

DurationCandidates ==
  <<<<"d","u","r","a","t","i","o","n","_","s","e","c","o","n","d","s">>, <<"d","u","r","a","t","i","o","n">>, <<"t","a","s","k","_","d","u","r","a","t","i","o","n">>, <<"e","l","a","p","s","e","d">>>>
CaseCandidates == <<<<"c","a","s","e","_","i","d">>, <<"c","a","s","e">>, <<"i","d">>>>
StartCandidates == <<<<"s","t","a","r","t","_","t","i","m","e">>, <<"s","t","a","r","t">>, <<"t","i","m","e","s","t","a","m","p">>>>
EndCandidates == <<<<"e","n","d","_","t","i","m","e">>, <<"e","n","d">>>>
UserCandidates == <<<<"u","s","e","r">>, <<"r","e","s","o","u","r","c","e">>, <<"a","g","e","n","t","_","p","r","o","f","i","l","e","_","i","d">>, <<"a","g","e","n","t">>>>

\* row numbers of one case
CaseRows(df, case_col, c) ==
  {r \in 1..NRows(df) : Column(df, case_col)[r] = c}

RMin1(r) == IF RLe(RInt(1), r) THEN RInt(1) ELSE r

\* a timestamp cell that is empty or does not parse: NaT after
\* pd.to_datetime(..., errors='coerce'); the timestamps of the tables are
\* seconds >= 0
NaT == -1

\* the timestamps of the rows R that are not NaT
Timestamps(df, col, R) == {Column(df, col)[r] : r \in R} \ {NaT}

\* the cases that have a start and an end: not start_times.isna().all() and
\* not end_times.isna().all()
LeadCases(df, case_col, start_col, end_col) ==
  {c \in Values(Column(df, case_col)) :
     /\ Timestamps(df, start_col, CaseRows(df, case_col, c)) # {}
     /\ Timestamps(df, end_col, CaseRows(df, case_col, c)) # {}}

\* lead time of one case: its last end minus its first start
LeadTime(df, case_col, start_col, end_col) ==
  [c \in LeadCases(df, case_col, start_col, end_col) |->
     SetMax(Timestamps(df, end_col, CaseRows(df, case_col, c)))
       - SetMin(Timestamps(df, start_col, CaseRows(df, case_col, c)))]

\* sum(case_lead_times)
SumOver(lead) == SumSet(DOMAIN lead, lead)

\* total_work_time / total_lead_time, capped at 1.0
FlowRatio(total_work_time, total_lead_time, estimated_lead_time) ==
  IF total_lead_time > 0
  THEN RMin1(RDiv(RInt(total_work_time), RInt(total_lead_time)))
  ELSE IF estimated_lead_time > 0
  THEN RMin1(RDiv(RInt(total_work_time), RInt(estimated_lead_time)))
  ELSE <<1, 2>>

\* flow_efficiency once the duration and case columns are found
FlowOfColumns(df, duration_col, case_col, start_col, end_col) ==
  FlowRatio(SumSeq(Column(df, duration_col)),
            IF start_col # NoneStr /\ end_col # NoneStr
            THEN SumOver(LeadTime(df, case_col, start_col, end_col))
            ELSE 0,
            SumSeq(Column(df, duration_col)) + NRows(df) * 300)

flow_efficiency(df) ==
  IF NRows(df) = 0 THEN RInt(0)
  ELSE IF find_column(df, DurationCandidates) = NoneStr
          \/ find_column(df, CaseCandidates) = NoneStr
  THEN RInt(0)
  ELSE FlowOfColumns(df, find_column(df, DurationCandidates),
                     find_column(df, CaseCandidates),
                     find_column(df, StartCandidates),
                     find_column(df, EndCandidates))

EmptyBuckets == [b07 |-> 0, b814 |-> 0, b14 |-> 0]

\* now - case_start in seconds, NaT when either is NaT
AgeFrom(now, starts) ==
  IF now = {} \/ starts = {} THEN NaT ELSE SetMax(now) - SetMin(starts)

\* age of a case in seconds: the latest start of the table minus the first
\* start of the case; without any start in the table `now` is the wall clock
\* and every case start is NaT
Age(df, case_col, start_col) ==
  [c \in Values(Column(df, case_col)) |->
     AgeFrom(Timestamps(df, start_col, 1..NRows(df)),
             Timestamps(df, start_col, CaseRows(df, case_col, c)))]

\* ages in days compared on seconds: age <= 7 iff seconds <= 7 * 86400; every
\* comparison with a NaN age is false
Buckets(age) ==
  [b07 |-> Cardinality({c \in DOMAIN age :
                          age[c] # NaT /\ age[c] <= 7 * 86400}),
   b814 |-> Cardinality({c \in DOMAIN age :
                           /\ age[c] # NaT
                           /\ age[c] > 7 * 86400
                           /\ age[c] <= 14 * 86400}),
   b14 |-> Cardinality({c \in DOMAIN age :
                          age[c] # NaT /\ age[c] > 14 * 86400})]

case_aging_buckets(df) ==
  IF NRows(df) = 0 THEN EmptyBuckets
  ELSE IF find_column(df, CaseCandidates) = NoneStr
          \/ find_column(df, StartCandidates) = NoneStr
  THEN EmptyBuckets
  ELSE Buckets(Age(df, find_column(df, CaseCandidates),
                   find_column(df, StartCandidates)))

\* mean over the cases of the per-case sums, in minutes
ThroughputOfColumns(df, duration_col, case_col) ==
  RDiv(RInt(SumSeq(Column(df, duration_col))),
       RInt(Cardinality(Values(Column(df, case_col))) * 60))

\* a variant of throughput_minutes that takes a table without a case column
\* as one case (sensitivity of C23)
ThroughputOfOneCase(df) ==
  IF NRows(df) = 0 THEN RInt(0)
  ELSE IF find_column(df, DurationCandidates) = NoneStr THEN RInt(0)
  ELSE IF find_column(df, CaseCandidates) = NoneStr
  THEN RDiv(RInt(SumSeq(Column(df, find_column(df, DurationCandidates)))),
            RInt(60))
  ELSE ThroughputOfColumns(df, find_column(df, DurationCandidates),
                           find_column(df, CaseCandidates))

throughput_minutes(df) ==
  IF NRows(df) = 0 THEN RInt(0)
  ELSE IF find_column(df, DurationCandidates) = NoneStr
          \/ find_column(df, CaseCandidates) = NoneStr
  THEN RInt(0)
  ELSE ThroughputOfColumns(df, find_column(df, DurationCandidates),
                           find_column(df, CaseCandidates))

\* rows of one case in sort_values([case_col, time_col]) order: by time,
\* rows of equal time in table order
RECURSIVE SortedRows(_, _)
SortedRows(R, Time) ==
  IF R = {} THEN <<>>
  ELSE LET first == CHOOSE r \in R :
                      \A q \in R : Time[r] < Time[q]
                                     \/ (Time[r] = Time[q] /\ r <= q)
       IN  <<first>> \o SortedRows(R \ {first}, Time)

\* the sort key of the rows: the start time, 0 without a time column; rows
\* without a time sort last (na_position='last')
RowTime(df, time_col) ==
  [r \in 1..NRows(df) |->
     IF time_col = NoneStr THEN 0
     ELSE IF Column(df, time_col)[r] = NaT
     THEN 1 + SetMax(Values(Column(df, time_col)))
     ELSE Column(df, time_col)[r]]

\* number of changes of user along the rows in `order`
Changes(users, order) ==
  Cardinality({i \in 2..Len(order) : users[order[i]] # users[order[i - 1]]})

\* handoff count of each case
HandoffCount(df, case_col, user_col, time_col) ==
  [c \in Values(Column(df, case_col)) |->
     Changes(Column(df, user_col),
             SortedRows(CaseRows(df, case_col, c), RowTime(df, time_col)))]

\* mean handoff count over the cases
MeanOver(count) ==
  RDiv(RInt(SumSet(DOMAIN count, count)), RInt(Cardinality(DOMAIN count)))

handoffs(df) ==
  IF NRows(df) = 0 THEN RInt(0)
  ELSE IF find_column(df, CaseCandidates) = NoneStr
          \/ find_column(df, UserCandidates) = NoneStr
  THEN RInt(0)
  ELSE MeanOver(HandoffCount(df, find_column(df, CaseCandidates),
                             find_column(df, UserCandidates),
                             find_column(df, StartCandidates)))

(***************************************************************************)
(* Values a metric lookup can yield: a float, NaN, None, a str or a dict.  *)
(***************************************************************************)

NoneNum == <<0, 0>>

Num(r) == [t |-> "num", v |-> r]
NaNVal == [t |-> "nan", v |-> NoneNum]
NoneVal == [t |-> "none", v |-> NoneNum]
StrVal == [t |-> "str", v |-> NoneNum]
DictVal == [t |-> "dict", v |-> NoneNum]
\* the lookup raised
RaiseVal == [t |-> "raise", v |-> NoneNum]

\* Series.mean(): NaN on an empty column
Mean(s) == IF Len(s) = 0 THEN NaNVal ELSE Num(Norm(<<SumSeq(s), Len(s)>>))

Median(s) ==
  IF Len(s) = 0 THEN NaNVal
  ELSE LET n == Len(s)
           order == SortedRows(1..n, [r \in 1..n |-> s[r]])
       IN  IF n % 2 = 1 THEN Num(RInt(s[order[(n + 1) \div 2]]))
           ELSE Num(Norm(<<s[order[n \div 2]] + s[order[n \div 2 + 1]], 2>>))

Max(s) == IF Len(s) = 0 THEN NaNVal ELSE Num(RInt(SetMax(Values(s))))

\* Series.nunique(): TypeError on an unhashable cell
Nunique(s) ==
  IF ListCell \in Values(s) THEN RaiseVal
  ELSE Num(RInt(Cardinality(Values(s))))

ActivityCandidates == <<<<"a","c","t","i","v","i","t","y">>, <<"s","t","e","p">>, <<"o","r","i","g","i","n","a","l","_","a","c","t","i","v","i","t","y">>>>
TeamCandidates == <<<<"t","e","a","m">>, <<"t","e","a","m","s">>>>

\* the keys of the dict compute_panel_metrics returns
PanelKeys(df) ==
  {<<"d","a","t","a","s","e","t">>, <<"f","i","l","t","e","r","s">>, <<"c","a","s","e","_","c","o","u","n","t">>, <<"f","l","o","w","_","e","f","f","i","c","i","e","n","c","y">>,
   <<"t","h","r","o","u","g","h","p","u","t","_","m","i","n","u","t","e","s">>, <<"h","a","n","d","o","f","f","s">>, <<"a","g","i","n","g","_","b","u","c","k","e","t","s">>}
  \cup (IF find_column(df, DurationCandidates) # NoneStr
        THEN {<<"a","v","g","_","d","u","r","a","t","i","o","n","_","s","e","c","o","n","d","s">>, <<"m","e","d","i","a","n","_","d","u","r","a","t","i","o","n","_","s","e","c","o","n","d","s">>,
              <<"m","a","x","_","d","u","r","a","t","i","o","n","_","s","e","c","o","n","d","s">>}
        ELSE {})
  \cup (IF find_column(df, ActivityCandidates) # NoneStr
        THEN {<<"u","n","i","q","u","e","_","a","c","t","i","v","i","t","i","e","s">>, <<"m","o","s","t","_","c","o","m","m","o","n","_","a","c","t","i","v","i","t","y">>} ELSE {})
  \cup (IF find_column(df, UserCandidates) # NoneStr
        THEN {<<"u","n","i","q","u","e","_","u","s","e","r","s">>} ELSE {})

\* compute_panel_metrics(df)[key], for key in PanelKeys(df)
PanelValue(df, key) ==
  LET duration_col == find_column(df, DurationCandidates)
      activity_col == find_column(df, ActivityCandidates)
      user_col == find_column(df, UserCandidates)
  IN  CASE key = <<"d","a","t","a","s","e","t">> -> StrVal
        [] key = <<"f","i","l","t","e","r","s">> -> DictVal
        [] key = <<"c","a","s","e","_","c","o","u","n","t">> -> Num(RInt(NRows(df)))
        [] key = <<"f","l","o","w","_","e","f","f","i","c","i","e","n","c","y">> -> Num(flow_efficiency(df))
        [] key = <<"t","h","r","o","u","g","h","p","u","t","_","m","i","n","u","t","e","s">> -> Num(throughput_minutes(df))
        [] key = <<"h","a","n","d","o","f","f","s">> -> Num(handoffs(df))
        [] key = <<"a","g","i","n","g","_","b","u","c","k","e","t","s">> -> DictVal
        [] key = <<"a","v","g","_","d","u","r","a","t","i","o","n","_","s","e","c","o","n","d","s">> -> Mean(Column(df, duration_col))
        [] key = <<"m","e","d","i","a","n","_","d","u","r","a","t","i","o","n","_","s","e","c","o","n","d","s">> -> Median(Column(df, duration_col))
        [] key = <<"m","a","x","_","d","u","r","a","t","i","o","n","_","s","e","c","o","n","d","s">> -> Max(Column(df, duration_col))
        [] key = <<"u","n","i","q","u","e","_","a","c","t","i","v","i","t","i","e","s">> -> Nunique(Column(df, activity_col))
        [] key = <<"m","o","s","t","_","c","o","m","m","o","n","_","a","c","t","i","v","i","t","y">> -> StrVal
        [] key = <<"u","n","i","q","u","e","_","u","s","e","r","s">> -> Nunique(Column(df, user_col))

\* compute_panel_metrics raises when one of its entries does: on the tables
\* modelled, the nunique() of the activity or of the user column
compute_panel_metrics_raises(df) ==
  \E key \in PanelKeys(df) \cap {<<"u","n","i","q","u","e","_","a","c","t","i","v","i","t","i","e","s">>, <<"u","n","i","q","u","e","_","u","s","e","r","s">>} :
    PanelValue(df, key) = RaiseVal

(***************************************************************************)
(* filter_dataframe, for the team / resource filters of a claim's slice    *)
(***************************************************************************)

\* truth value of an optional str: None and "" are false
Truthy(s) == s # NoneStr /\ s # <<>>

\* Series.isin(values) hashes the cells: TypeError on an unhashable cell
filter_dataframe_raises(df, filters) ==
  \/ /\ Truthy(filters.team)
     /\ find_column(df, TeamCandidates) # NoneStr
     /\ ListCell \in Values(Column(df, find_column(df, TeamCandidates)))
  \/ /\ Truthy(filters.resource)
     /\ find_column(df, UserCandidates) # NoneStr
     /\ ListCell \in Values(Column(df, find_column(df, UserCandidates)))

filter_dataframe(df, filters) ==
  LET team_col == find_column(df, TeamCandidates)
      user_col == find_column(df, UserCandidates)
      Keep(row) ==
        /\ (Truthy(filters.team) /\ team_col # NoneStr)
             => row[ColIndex(df, team_col)] = filters.team
        /\ (Truthy(filters.resource) /\ user_col # NoneStr)
             => row[ColIndex(df, user_col)] = filters.resource
  IN  Table(df.cols, SelectSeq(df.rows, Keep))

IsSpace(c) == c = " "

RECURSIVE Strip(_)
Strip(s) ==
  IF Len(s) = 0 THEN s
  ELSE IF IsSpace(s[1]) THEN Strip(Tail(s))
  ELSE IF IsSpace(s[Len(s)]) THEN Strip(SubSeq(s, 1, Len(s) - 1))
  ELSE s

\* re.search(key + '([^,]+)', s).group(1).strip(), or NoneStr without a match
SearchValue(s, key) ==
  LET starts == {i \in 1..Len(s) :
                   /\ StartsAt(s, key, i)
                   /\ i + Len(key) <= Len(s)
                   /\ s[i + Len(key)] # ","}
  IN  IF starts = {} THEN NoneStr
      ELSE LET b == SetMin(starts) + Len(key)
               commas == {j \in b..Len(s) : s[j] = ","}
               e == IF commas = {} THEN Len(s) ELSE SetMin(commas) - 1
           IN  Strip(SubSeq(s, b, e))

\* slice_filters of a claim's slice descriptor
SliceFilters(slice_desc) ==
  [team |-> IF Contains(<<"t","e","a","m","=">>, slice_desc)
            THEN SearchValue(slice_desc, <<"t","e","a","m","=">>) ELSE NoneStr,
   resource |-> IF Contains(<<"r","e","s","o","u","r","c","e","=">>, slice_desc)
                THEN SearchValue(slice_desc, <<"r","e","s","o","u","r","c","e","=">>) ELSE NoneStr]

(***************************************************************************)
(* recompute_metrics                                                       *)
(***************************************************************************)

\* result["pass"]
PassTrue == "True"
PassFalse == "False"
PassUnknown == "None"

Result(name, claimed, recomputed, pass, abs_err, pct_err, error) ==
  [name |-> name, claimed |-> claimed, recomputed |-> recomputed,
   pass |-> pass, abs_err |-> abs_err, pct_err |-> pct_err, error |-> error]

\* working_df of a claim: the slice, re-filtered by the claim's descriptor
HasSliceFilters(claim) ==
  /\ Truthy(claim.slice)
  /\ SliceFilters(claim.slice) # NoFilters

WorkingRaises(claim, df) ==
  HasSliceFilters(claim) /\ filter_dataframe_raises(df, SliceFilters(claim.slice))

WorkingDf(claim, df) ==
  IF HasSliceFilters(claim)
  THEN filter_dataframe(df, SliceFilters(claim.slice))
  ELSE df

\* the bucket of `aging` the claim designates, None when it designates none
AgingValue(claim, aging) ==
  IF Contains(<<">","1","4","d">>, claim.raw_text) \/ Contains(<<"1","4","d">>, claim.name)
  THEN Num(RInt(aging.b14))
  ELSE IF Contains(<<"8","-","1","4">>, claim.raw_text) \/ Contains(<<"8","_","1","4">>, claim.name)
  THEN Num(RInt(aging.b814))
  ELSE IF Contains(<<"0","-","7">>, claim.raw_text) \/ Contains(<<"0","_","7">>, claim.name)
  THEN Num(RInt(aging.b07))
  ELSE NoneVal

\* float(len(working_df)), replaced by the nunique() of the case column
CaseCount(wdf, case_col) ==
  IF case_col # NoneStr THEN Nunique(Column(wdf, case_col))
  ELSE Num(RInt(NRows(wdf)))

\* the statistic of the duration column the name asks for
DurationValue(metric_name, wdf, duration_col) ==
  IF duration_col = NoneStr THEN NoneVal
  ELSE IF Contains(<<"a","v","g">>, metric_name) \/ Contains(<<"m","e","a","n">>, metric_name)
          \/ Contains(<<"a","v","e","r","a","g","e">>, metric_name)
  THEN Mean(Column(wdf, duration_col))
  ELSE IF Contains(<<"m","e","d","i","a","n">>, metric_name)
  THEN Median(Column(wdf, duration_col))
  ELSE IF Contains(<<"m","a","x">>, metric_name) \/ Contains(<<"m","a","x","i","m","u","m">>, metric_name)
  THEN Max(Column(wdf, duration_col))
  ELSE Mean(Column(wdf, duration_col))

\* float(working_df[col].nunique()) when the column was found
UniqueCount(wdf, col) ==
  IF col # NoneStr THEN Nunique(Column(wdf, col)) ELSE NoneVal

\* the if/elif chain on the claim's name, inside the try: the value it
\* assigns to recomputed_value, NoneVal when it assigns none, RaiseVal when
\* the call raised
RoutedValue(claim, wdf) ==
  IF claim.name \in {<<"f","l","o","w","_","e","f","f","i","c","i","e","n","c","y">>, <<"f","l","o","w"," ","e","f","f","i","c","i","e","n","c","y">>}
  THEN Num(flow_efficiency(wdf))
  ELSE IF claim.name \in {<<"h","a","n","d","o","f","f","s">>, <<"h","a","n","d","o","f","f">>, <<"a","v","g","_","h","a","n","d","o","f","f","s">>}
  THEN Num(handoffs(wdf))
  ELSE IF claim.name \in {<<"t","h","r","o","u","g","h","p","u","t","_","m","i","n","u","t","e","s">>, <<"t","h","r","o","u","g","h","p","u","t">>,
                          <<"a","v","g","_","t","h","r","o","u","g","h","p","u","t">>}
  THEN Num(throughput_minutes(wdf))
  ELSE IF Contains(<<"a","g","i","n","g">>, claim.name) \/ Contains(<<"a","g","e">>, claim.name)
  THEN AgingValue(claim, case_aging_buckets(wdf))
  ELSE IF claim.name \in {<<"c","a","s","e","s">>, <<"c","a","s","e","_","c","o","u","n","t">>, <<"c","a","s","e"," ","c","o","u","n","t">>}
  THEN CaseCount(wdf, find_column(wdf, <<<<"c","a","s","e","_","i","d">>, <<"c","a","s","e">>, <<"i","d">>>>))
  ELSE IF Contains(<<"d","u","r","a","t","i","o","n">>, claim.name)
          \/ claim.name \in {<<"a","v","g","_","d","u","r","a","t","i","o","n">>, <<"m","e","a","n","_","d","u","r","a","t","i","o","n">>}
  THEN DurationValue(claim.name, wdf,
                     find_column(wdf, <<<<"d","u","r","a","t","i","o","n","_","s","e","c","o","n","d","s">>, <<"d","u","r","a","t","i","o","n">>,
                                        <<"t","a","s","k","_","d","u","r","a","t","i","o","n">>>>))
  ELSE IF claim.name \in {<<"u","s","e","r","s">>, <<"u","s","e","r","_","c","o","u","n","t">>, <<"u","n","i","q","u","e","_","u","s","e","r","s">>}
  THEN UniqueCount(wdf, find_column(wdf, <<<<"u","s","e","r">>, <<"r","e","s","o","u","r","c","e">>,
                                           <<"a","g","e","n","t","_","p","r","o","f","i","l","e","_","i","d">>>>))
  ELSE IF claim.name \in {<<"a","c","t","i","v","i","t","i","e","s">>, <<"a","c","t","i","v","i","t","y","_","c","o","u","n","t">>,
                          <<"u","n","i","q","u","e","_","a","c","t","i","v","i","t","i","e","s">>}
  THEN UniqueCount(wdf, find_column(wdf, <<<<"a","c","t","i","v","i","t","y">>, <<"s","t","e","p">>,
                                           <<"o","r","i","g","i","n","a","l","_","a","c","t","i","v","i","t","y">>>>))
  ELSE IF claim.name \in {<<"t","e","a","m","s">>, <<"t","e","a","m","_","c","o","u","n","t">>, <<"u","n","i","q","u","e","_","t","e","a","m","s">>}
  THEN UniqueCount(wdf, find_column(wdf, <<<<"t","e","a","m">>, <<"t","e","a","m","s">>>>))
  ELSE NoneVal

\* the panel fallback: the entry of that name in the panel metrics of the
\* whole slice, when the chain assigned nothing
PanelFallback(routed, claim, df) ==
  IF routed = NoneVal /\ claim.name \in PanelKeys(df)
  THEN PanelValue(df, claim.name)
  ELSE routed

\* recomputed_value at the end of the try block
RecomputedValue(claim, df) ==
  PanelFallback(RoutedValue(claim, WorkingDf(claim, df)), claim, df)

\* a variant of CountLike without the substring tests (sensitivity of C8)
CountLikeListed(metric_name) ==
  metric_name \in {<<"c","a","s","e","s">>, <<"c","a","s","e","_","c","o","u","n","t">>, <<"u","s","e","r","s">>, <<"a","c","t","i","v","i","t","i","e","s">>,
                   <<"t","e","a","m","s">>, <<"h","a","n","d","o","f","f","s">>}

\* the count-like names, compared with an absolute tolerance of 1
CountLike(metric_name) ==
  \/ metric_name \in {<<"c","a","s","e","s">>, <<"c","a","s","e","_","c","o","u","n","t">>, <<"u","s","e","r","s">>, <<"a","c","t","i","v","i","t","i","e","s">>,
                      <<"t","e","a","m","s">>, <<"h","a","n","d","o","f","f","s">>}
  \/ Contains(<<"c","o","u","n","t">>, metric_name)
  \/ Contains(<<"a","g","i","n","g">>, metric_name)

AbsErr(claimed, recomputed) == RAbs(RSub(claimed, recomputed))

PctErr(claimed, recomputed, tolerance_pct) ==
  LET abs_err == AbsErr(claimed, recomputed)
  IN  IF recomputed[1] # 0 THEN RDiv(abs_err, RAbs(recomputed))
      ELSE IF RLt(tolerance_pct, abs_err) THEN abs_err ELSE RInt(0)

\* a variant of Passes whose percentage rule is strict (sensitivity of C7)
PassesStrict(metric_name, claimed, recomputed, tolerance_pct) ==
  IF CountLike(metric_name)
  THEN RLe(AbsErr(claimed, recomputed), RInt(1))
  ELSE RLt(PctErr(claimed, recomputed, tolerance_pct), tolerance_pct)

Passes(metric_name, claimed, recomputed, tolerance_pct) ==
  IF CountLike(metric_name)
  THEN RLe(AbsErr(claimed, recomputed), RInt(1))
  ELSE RLe(PctErr(claimed, recomputed, tolerance_pct), tolerance_pct)

\* the comparison of a claim with a number raises TypeError on a str or a dict
CompareRaises(value) == value.t \in {"str", "dict"}

\* the result appended by the except branch: the recompute step threw
RaisedResult(claim) ==
  Result(claim.name, claim.value, NoneVal, PassFalse, NoneVal, NoneVal,
         "TypeError")

\* the result appended when recomputed_value is None
UnknownResult(claim) ==
  Result(claim.name, claim.value, NoneVal, PassUnknown, NoneVal, NoneVal,
         "Metric not recomputable")

\* the comparison of the claimed with the recomputed value, and the result
\* appended for it
Compared(claim, value, tolerance_pct) ==
  IF value = RaiseVal THEN RaisedResult(claim)
  ELSE IF value.t = "num"
  THEN Result(claim.name, claim.value, value,
              IF Passes(claim.name, claim.value, value.v, tolerance_pct)
              THEN PassTrue ELSE PassFalse,
              Num(AbsErr(claim.value, value.v)),
              Num(PctErr(claim.value, value.v, tolerance_pct)), "")
  ELSE IF value.t = "nan"
  THEN \* every comparison with NaN is false
       Result(claim.name, claim.value, NaNVal, PassFalse, NaNVal, NaNVal, "")
  ELSE UnknownResult(claim)

\* the result appended for one claim (when nothing propagates)
ClaimResult(claim, df, tolerance_pct) ==
  Compared(claim, RecomputedValue(claim, df), tolerance_pct)

\* an exception leaves the loop body of one claim
ClaimRaises(claim, df) ==
  \/ WorkingRaises(claim, df)
  \/ CompareRaises(RecomputedValue(claim, df))

\* a variant of LoopResults that appends nothing for a claim that is not
\* recomputable (sensitivity of C3)
LoopResultsSkipUnknown(cs, df, tolerance_pct) ==
  SelectSeq([i \in 1..Len(cs) |-> ClaimResult(cs[i], df, tolerance_pct)],
            LAMBDA r : r.pass # PassUnknown)

\* the results list after the loop over the claims
LoopResults(cs, df, tolerance_pct) ==
  [i \in 1..Len(cs) |-> ClaimResult(cs[i], df, tolerance_pct)]

\* [raised, value]
recompute_metrics(cs, df, tolerance_pct) ==
  IF NRows(df) = 0 THEN [raised |-> FALSE, value |-> <<>>]
  ELSE IF compute_panel_metrics_raises(df)
          \/ \E i \in 1..Len(cs) : ClaimRaises(cs[i], df)
  THEN [raised |-> TRUE, value |-> <<>>]
  ELSE [raised |-> FALSE, value |-> LoopResults(cs, df, tolerance_pct)]

(***************************************************************************)
(* Calls of recompute_metrics on bounded claim lists and tables            *)
(***************************************************************************)

MaxClaims == 2

EventCols == <<<<"c","a","s","e","_","i","d">>, <<"u","s","e","r">>, <<"d","u","r","a","t","i","o","n","_","s","e","c","o","n","d","s">>, <<"t","e","a","m">>>>

\* the slices handed to recompute_metrics: no row, one case, two cases, and
\* two cases with an unhashable team cell
EventTables ==
  { Table(EventCols, <<>>),
    Table(EventCols, <<<<<<"1">>, <<"A","l","i","c","e">>, 100, <<"S","a","l","e","s">>>>>>),
    Table(EventCols, <<<<<<"1">>, <<"A","l","i","c","e">>, 100, <<"S","a","l","e","s">>>>,
                       <<<<"2">>, <<"B","o","b">>, 100, <<"S","u","p","p","o","r","t">>>>>>),
    Table(EventCols, <<<<<<"1">>, <<"A","l","i","c","e">>, 100, <<"S","a","l","e","s">>>>,
                       <<<<"2">>, <<"B","o","b">>, 100, ListCell>>>>) }

\* a claim as a caller of recompute_metrics builds it
DirectClaim(name, slice, value) ==
  Claim(name, slice, value, <<>>, name, FALSE)

RecomputeClaims ==
  { DirectClaim(<<"c","a","s","e","s">>, NoneStr, RInt(3)),
    DirectClaim(<<"a","v","g","_","d","u","r","a","t","i","o","n">>, NoneStr, RInt(101)),
    DirectClaim(<<"a","v","g","_","d","u","r","a","t","i","o","n">>, NoneStr, RInt(102)),
    DirectClaim(<<"a","v","g","_","d","u","r","a","t","i","o","n">>, NoneStr, RInt(103)),
    DirectClaim(<<"a","v","g","_","d","u","r","a","t","i","o","n">>, NoneStr, RInt(110)),
    DirectClaim(<<"t","h","r","o","u","g","h","p","u","t">>, <<"t","e","a","m","=","O","p","s">>, <<1, 100>>),
    DirectClaim(<<"u","s","e","r","_","c","o","u","n","t">>, NoneStr, RInt(3)),
    DirectClaim(<<"t","e","a","m","s">>, NoneStr, RInt(1)),
    DirectClaim(<<"d","a","t","a","s","e","t">>, NoneStr, RInt(5)),
    DirectClaim(<<"x","y","z">>, NoneStr, RInt(1)) }

Tolerances == {DefaultTolerance, <<1, 10>>}

InitRecompute ==
  /\ pc = "recompute_call"
  /\ text = <<>>
  /\ table \in EventTables
  /\ tol \in Tolerances
  /\ claims \in BoundedSeq(RecomputeClaims, MaxClaims)
  /\ results = <<>>
  /\ summary = NoSummary
  /\ NoHttp

\* the call ends: the exception propagates or the list is returned
RecomputeDone(r) ==
  /\ pc' = IF r.raised THEN "recompute_raised" ELSE "recompute_returned"
  /\ results' = r.value

CallRecompute ==
  /\ pc = "recompute_call"
  /\ RecomputeDone(recompute_metrics(claims, table, tol))
  /\ UNCHANGED <<text, table, tol, claims, summary>>
  /\ UNCHANGED <<httpVars, storeVars, colVars, restVars>>

SpecRecompute == InitRecompute /\ [][CallRecompute]_vars

\* C2 as stated: on a non-empty table slice recompute_metrics returns
\* normally, whatever the claim names are and whichever route resolves them,
\* the compute_panel_metrics fallback lookup included.
C2_NeverPropagates ==
  NRows(table) > 0 => pc # "recompute_raised"

C7_ToleranceBoundary ==
  pc = "recompute_returned" =>
    \A i \in 1..Len(results) :
      LET r == results[i] IN
      (r.name = <<"a","v","g","_","d","u","r","a","t","i","o","n">> /\ r.recomputed.t = "num"
         /\ r.recomputed.v[1] # 0) =>
        /\ r.pct_err.v = tol => r.pass = PassTrue
        /\ RLt(tol, r.pct_err.v) => r.pass = PassFalse
        /\ (tol = <<1, 50>> /\ r.claimed = RInt(101)
              /\ r.recomputed.v = RInt(100)) => r.pass = PassTrue
        /\ (tol = <<1, 50>> /\ r.claimed = RInt(110)
              /\ r.recomputed.v = RInt(100))
             => r.pass = PassFalse /\ r.pct_err.v = <<1, 10>>

\* C7 witness: one result exactly at the tolerance and one just above it.
C7_Witness ==
  /\ pc = "recompute_returned"
  /\ \E i, j \in 1..Len(results) :
       /\ results[i].name = <<"a","v","g","_","d","u","r","a","t","i","o","n">>
       /\ results[i].pct_err.v = tol
       /\ results[i].pass = PassTrue
       /\ results[j].name = <<"a","v","g","_","d","u","r","a","t","i","o","n">>
       /\ RLt(tol, results[j].pct_err.v)
       /\ results[j].pass = PassFalse

\* the names the claim lists as compared with an absolute tolerance
C8_AbsoluteName(n) ==
  \/ n \in {<<"c","a","s","e","s">>, <<"c","a","s","e","_","c","o","u","n","t">>, <<"u","s","e","r","s">>, <<"a","c","t","i","v","i","t","i","e","s">>, <<"t","e","a","m","s">>,
            <<"h","a","n","d","o","f","f","s">>}
  \/ Contains(<<"c","o","u","n","t">>, n)
  \/ Contains(<<"a","g","i","n","g">>, n)

\* C8: for every recomputed claim, pass is |claimed - recomputed| <= 1
\* exactly when the name is one of cases, case_count, users, activities,
\* teams, handoffs or contains 'count' or 'aging'; for every other name pass
\* is pct_err <= tolerance_pct.
C8_PassRule ==
  pc = "recompute_returned" =>
    \A i \in 1..Len(results) :
      LET r == results[i] IN
      r.recomputed.t = "num" =>
        IF C8_AbsoluteName(r.name)
        THEN (r.pass = PassTrue) <=> RLe(r.abs_err.v, RInt(1))
        ELSE (r.pass = PassTrue) <=> RLe(r.pct_err.v, tol)

\* C8 witness: a name holding 'count' passes on the absolute rule where the
\* percentage rule would fail, and a duration passes on the percentage rule
\* where the absolute rule would fail.
C8_Witness ==
  /\ pc = "recompute_returned"
  /\ \E i, j \in 1..Len(results) :
       /\ results[i].name = <<"u","s","e","r","_","c","o","u","n","t">>
       /\ results[i].pass = PassTrue
       /\ RLt(tol, results[i].pct_err.v)
       /\ results[j].name = <<"a","v","g","_","d","u","r","a","t","i","o","n">>
       /\ results[j].pass = PassTrue
       /\ RLt(RInt(1), results[j].abs_err.v)

\* C9 as stated: a result whose metric could not be recomputed (no metric of
\* that name, or the recompute step threw) has pass = unknown, recomputed =
\* null and a non-empty error.
C9_NotRecomputedIsUnknown ==
  pc = "recompute_returned" =>
    \A i \in 1..Len(results) :
      results[i].recomputed = NoneVal =>
        results[i].pass = PassUnknown /\ results[i].error # ""

(***************************************************************************)
(* verify_answer                                                           *)
(***************************************************************************)

\* a variant of GroundedAccuracyPass that counts a result of unknown pass as
\* failed (sensitivity of C4)
GroundedAccuracyPassStrict(rs) ==
  IF Len(rs) = 0 THEN "None"
  ELSE IF \A i \in 1..Len(rs) : rs[i].pass = PassTrue THEN "True"
  ELSE "False"

\* grounded_accuracy_pass over the verification results: "True", "False" or
\* "None"
GroundedAccuracyPass(rs) ==
  LET claims_with_pass_result == SelectSeq(rs, LAMBDA r : r.pass # PassUnknown)
      claims_failed ==
        SelectSeq(claims_with_pass_result, LAMBDA r : r.pass # PassTrue)
  IN  IF Len(claims_with_pass_result) > 0
      THEN (IF Len(claims_failed) = 0 THEN "True" ELSE "False")
      ELSE "None"

Summary(rs, cs) ==
  LET claims_with_pass_result == SelectSeq(rs, LAMBDA r : r.pass # PassUnknown)
      claims_passed ==
        SelectSeq(claims_with_pass_result, LAMBDA r : r.pass = PassTrue)
      claims_failed ==
        SelectSeq(claims_with_pass_result, LAMBDA r : r.pass # PassTrue)
  IN  [has_numeric_claims |-> TRUE,
       grounded_accuracy_pass |-> GroundedAccuracyPass(rs),
       claims_verified |-> Len(claims_with_pass_result),
       claims_passed |-> Len(claims_passed),
       claims_failed |-> Len(claims_failed),
       verification_results |-> rs,
       all_claims |-> cs]

\* the summary returned when the text holds no claim
NoClaimsSummary ==
  [has_numeric_claims |-> FALSE, grounded_accuracy_pass |-> "None",
   claims_verified |-> 0, claims_passed |-> 0, claims_failed |-> 0,
   verification_results |-> <<>>]

\* a variant of Verified without the early return for an empty claim list
\* (sensitivity of C24)
VerifiedWithoutEarlyReturn(extracted, recomputed) ==
  IF extracted.raised \/ recomputed.raised
  THEN [raised |-> TRUE, value |-> NoSummary]
  ELSE [raised |-> FALSE,
        value |-> Summary(recomputed.value, extracted.value)]

\* verify_answer once the claims are extracted and, if any, verified
Verified(extracted, recomputed) ==
  IF extracted.raised THEN [raised |-> TRUE, value |-> NoSummary]
  ELSE IF Len(extracted.value) = 0
  THEN [raised |-> FALSE, value |-> NoClaimsSummary]
  ELSE IF recomputed.raised THEN [raised |-> TRUE, value |-> NoSummary]
  ELSE [raised |-> FALSE,
        value |-> Summary(recomputed.value, extracted.value)]

\* the claims handed to recompute_metrics: none when extraction raised
ClaimsOf(extracted) == IF extracted.raised THEN <<>> ELSE extracted.value

\* [raised, value]
VerifyClaims(extracted, df, tolerance_pct) ==
  Verified(extracted,
           recompute_metrics(ClaimsOf(extracted), df, tolerance_pct))

verify_answer(answer_text, df, tolerance_pct) ==
  VerifyClaims(extract_numeric_claims(answer_text), df, tolerance_pct)

(***************************************************************************)
(* Calls of verify_answer on bounded answer texts and tables               *)
(***************************************************************************)

AnswerFrags ==
  { P1(<<"c","a","s","e","s">>, <<"3">>, <<>>),
    P1(<<"a","v","g","_","d","u","r","a","t","i","o","n">>, <<"1","0","2">>, <<>>),
    P1(<<"a","v","g","_","d","u","r","a","t","i","o","n">>, <<"1","1","0">>, <<>>),
    P1(<<"t","e","a","m","s">>, <<"1">>, <<>>),
    P1(<<"x","y","z">>, <<"1">>, <<>>),
    P1(<<"D","a","t","a","s","e","t">>, <<"5">>, <<>>),
    FactsBlock(JsonObject(<<Metric(<<"c","a","s","e","_","c","o","u","n","t">>, <<"2">>, TRUE),
                            Metric(<<"u","n","i","q","u","e","_","u","s","e","r","s">>, <<"7">>, TRUE)>>,
                          NoneStr, NoneStr)),
    FactsBlock(JsonNumber),
    Prose }

InitVerify ==
  /\ pc = "verify_call"
  /\ text \in BoundedSeq(AnswerFrags, MaxFrags)
  /\ table \in EventTables
  /\ tol = DefaultTolerance
  /\ claims = <<>>
  /\ results = <<>>
  /\ summary = NoSummary
  /\ NoHttp

\* the call ends: the exception propagates or the summary is returned
VerifyDone(r) ==
  /\ pc' = IF r.raised THEN "verify_raised" ELSE "verify_returned"
  /\ summary' = r.value

CallVerify ==
  /\ pc = "verify_call"
  /\ VerifyDone(verify_answer(text, table, tol))
  /\ UNCHANGED <<text, table, tol, claims, results>>
  /\ UNCHANGED <<httpVars, storeVars, colVars, restVars>>

SpecVerify == InitVerify /\ [][CallVerify]_vars

\* C4: in every summary verify_answer returns, grounded_accuracy_pass is true
\* iff some result has a pass value other than unknown and every such result
\* passed, false iff some such result failed, and null iff there is none;
\* results of unknown pass count neither for nor against.
C4_GroundedAccuracyPass ==
  pc = "verify_returned" =>
    LET rs == summary.verification_results
        evaluable == {i \in 1..Len(rs) : rs[i].pass # PassUnknown}
        failed == {i \in evaluable : rs[i].pass = PassFalse}
    IN  /\ summary.grounded_accuracy_pass = "True"
             <=> (evaluable # {} /\ failed = {})
        /\ summary.grounded_accuracy_pass = "False" <=> failed # {}
        /\ summary.grounded_accuracy_pass = "None" <=> evaluable = {}

\* C4 witness: a summary with a passed result and a result of unknown pass,
\* whose grounded_accuracy_pass is true.
C4_Witness ==
  /\ pc = "verify_returned"
  /\ summary.grounded_accuracy_pass = "True"
  /\ \E i, j \in 1..Len(summary.verification_results) :
       /\ summary.verification_results[i].pass = PassUnknown
       /\ summary.verification_results[j].pass = PassTrue

(***************************************************************************)
(* One request to /api/analyze/<dataset>: the before_request hook, the     *)
(* view function and the after_request hook, in the order Flask runs them. *)
(* SalesforceAgent / AmadeusAgent are not part of backend/: what handle()  *)
(* does is an input of the request (a result with a text, a result without *)
(* one, or an exception), and `text` is the answer it produced.            *)
(***************************************************************************)

\* request.path of the route /api/analyze/<dataset>, as its segments
AnalyzePath(dataset) == <<"api", "analyze", dataset>>

\* jsonify(result), 200
ResultResponse(has_text, answer_text) ==
  [status |-> 200, has_text |-> has_text,
   text |-> IF has_text THEN answer_text ELSE <<>>, error |-> "None",
   direct_passthrough |-> FALSE]

\* jsonify({"error": message}), status
ErrorResponse(status, message) ==
  [status |-> status, has_text |-> FALSE, text |-> <<>>, error |-> message,
   direct_passthrough |-> FALSE]

before_request_telemetry(endpoint) ==
  [start_time |-> TRUE, start_time_model |-> FALSE,
   request_metadata |-> NewMetadata(endpoint)]

\* what validate_references returns for a known dataset; whether the words
\* and quoted strings of the answer are in the vocabulary is an input of the
\* request
HallucinationCheck(references) ==
  [has_hallucinations |-> references = "hallucinated", checked |-> TRUE]

\* extracted_metrics['hallucination_check'] = hallucination_check
WithCheck(verification, references) ==
  verification @@ [hallucination_check |-> HallucinationCheck(references)]

\* the request_metadata after the auto-verification block: [raised, metadata]
Annotated(e, req, metadata, verification) ==
  IF verification.raised THEN [raised |-> TRUE, metadata |-> metadata]
  ELSE [raised |-> FALSE,
        metadata |->
          [metadata EXCEPT
             !.extracted_metrics =
                IF e.schema_dict
                THEN WithCheck(verification.value, req.references)
                ELSE verification.value]]

\* dataset_slice: the agent's table under the filters of the request
DatasetSlice(df, filters) ==
  IF Truthy(filters.team) \/ Truthy(filters.resource)
  THEN filter_dataframe(df, filters)
  ELSE df

\* the auto-verification block of analyze_dataset, for an agent result that
\* holds a text: [raised, metadata]
AutoVerification(e, req, metadata, answer_text, df, tolerance_pct) ==
  IF (Truthy(req.filters.team) \/ Truthy(req.filters.resource))
     /\ filter_dataframe_raises(df, req.filters)
  THEN [raised |-> TRUE, metadata |-> metadata]
  ELSE Annotated(e, req, metadata,
                 verify_answer(answer_text, DatasetSlice(df, req.filters),
                               tolerance_pct))

\* the outcome of the view once the auto-verification block has run
Answered(verified, md, answer_text) ==
  IF verified.raised
  THEN [response |-> ErrorResponse(500, "TypeError"),
        metadata |-> [md EXCEPT !.error = "TypeError"]]
  ELSE [response |-> ResultResponse(TRUE, answer_text),
        metadata |-> verified.metadata]

\* the view with the dataset and the filters recorded in request_metadata
Routed(e, req, md, answer_text, df, tolerance_pct) ==
  IF req.dataset \notin e.agents
  THEN [response |-> ErrorResponse(404, "Dataset not found"),
        metadata |-> [md EXCEPT !.error = "Dataset not found"]]
  ELSE IF req.handle = "raises"
  THEN [response |-> ErrorResponse(500, "agent error"),
        metadata |-> [md EXCEPT !.error = "agent error"]]
  ELSE IF e.INSTRUMENTATION_AVAILABLE /\ req.handle = "text"
  THEN Answered(AutoVerification(e, req, md, answer_text, df, tolerance_pct),
                md, answer_text)
  ELSE [response |-> ResultResponse(req.handle = "text", answer_text),
        metadata |-> md]

\* [response, metadata]: the response analyze_dataset returns and the
\* request_metadata it leaves in flask.g
analyze_dataset(e, req, metadata, answer_text, df, tolerance_pct) ==
  Routed(e, req,
         [metadata EXCEPT !.dataset = req.dataset, !.filters = req.filters],
         answer_text, df, tolerance_pct)

\* what can fail while a trace is recorded: nothing, building the record,
\* or one of the I/O steps of write_trace_log
IOFaults ==
  {"none", "record", "mkdir", "open", "dumps", "write", "flush", "fsync"}

\* JSON null
JsonNull == <<"null">>

\* json.dumps(trace_record, default=str): a key whose value is None stays in
\* the object, with the value null
Dumps(trace_record) ==
  [k \in DOMAIN trace_record |->
     IF k = "user_id" /\ trace_record[k] = NoneStr THEN JsonNull
     ELSE trace_record[k]]

\* json.loads of a line holding one object: null becomes None
Loads(object) ==
  [k \in DOMAIN object |->
     IF k = "user_id" /\ object[k] = JsonNull THEN NoneStr ELSE object[k]]

\* what one write(2) of write_trace_log leaves in the file: the record as
\* one JSON line, newline included, or the head of that line when the write
\* stopped early
TraceLine(trace_record, complete) ==
  [kind |-> IF complete THEN "record" ELSE "partial",
   record |-> Dumps(trace_record)]

\* the try block of write_trace_log: whether it raised, and the contents the
\* file may have afterwards
WriteBody(trace_record, fault, file) ==
  [raised |-> fault # "none",
   files |->
     IF fault \in {"mkdir", "open", "dumps"} THEN {file}
     ELSE IF fault \in {"write", "flush"}
     THEN {file, Append(file, TraceLine(trace_record, FALSE))}
     ELSE {Append(file, TraceLine(trace_record, TRUE))}]

\* a variant of write_trace_log without the except clause (sensitivity of C10)
write_trace_log_unguarded(e, trace_record, fault, file) ==
  IF ~e.ENABLE_TRACING THEN [raised |-> FALSE, files |-> {file}]
  ELSE WriteBody(trace_record, fault, file)

write_trace_log(e, trace_record, fault, file) ==
  IF ~e.ENABLE_TRACING THEN [raised |-> FALSE, files |-> {file}]
  ELSE LET body == WriteBody(trace_record, fault, file)
       IN  IF body.raised THEN [raised |-> FALSE, files |-> body.files]
           ELSE body

\* {}
EmptyDict == <<>>

\* d.get(key, default)
Get(d, key, default) == IF key \in DOMAIN d THEN d[key] ELSE default

\* the trace_record after_request_telemetry builds; a header that is absent
\* leaves user_id None, which json.dumps writes as null
TraceRecord(metadata, headers, now) ==
  [timestamp_utc |-> now,
   endpoint |-> metadata.endpoint, dataset |-> metadata.dataset,
   filters |-> metadata.filters, error |-> metadata.error,
   extracted_metrics |->
     IF metadata.extracted_metrics = NoSummary THEN EmptyDict
     ELSE metadata.extracted_metrics,
   router_correct |-> "None",
   session_id |-> Get(headers, "X-Session-ID", <<"a","n","o","n","y","m","o","u","s">>),
   user_id |-> Get(headers, "X-User-ID", NoneStr),
   resolved |-> FALSE]

\* the name of the day's file, traces-YYYYMMDD.jsonl, for the current day
TodayFile == "traces-today.jsonl"

\* open(trace_file, 'a') was reached and created the file if it was absent
Created(call) == call.called /\ call.fault \notin {"mkdir", "open"}

\* [raised, value, call, files]: the response returned, the call of
\* write_trace_log made, and the contents the file may have afterwards
after_request_telemetry(e, gg, headers, resp, now, fault, file) ==
  LET written == write_trace_log(e, TraceRecord(gg.request_metadata, headers,
                                                now),
                                 fault, file)
  IN  IF ~e.ENABLE_TRACING \/ ~gg.start_time
      THEN [raised |-> FALSE, value |-> resp, call |-> NoCall,
            files |-> {file}]
      ELSE IF fault = "record" \/ resp.direct_passthrough
      THEN [raised |-> FALSE, value |-> resp, call |-> NoCall,
            files |-> {file}]
      ELSE [raised |-> FALSE, value |-> resp,
            call |-> [called |-> TRUE, fault |-> fault,
                      raised |-> written.raised],
            files |-> written.files]

Datasets == {"salesforce", "amadeus", "other"}

RequestFilters == {NoFilters, [team |-> <<"O","p","s">>, resource |-> NoneStr]}

\* a line an earlier request left in the day's file
EarlierLine ==
  TraceLine(TraceRecord(NewMetadata(<<"api", "health">>), NoHeaders, 0), TRUE)

InitRequest ==
  /\ pc = "request_received"
  /\ text \in {<<>>} \cup {<<f>> : f \in AnswerFrags}
  /\ table \in EventTables
  /\ tol = DefaultTolerance
  /\ claims = <<>>
  /\ results = <<>>
  /\ summary = NoSummary
  /\ env \in [ENABLE_TRACING : BOOLEAN, INSTRUMENTATION_AVAILABLE : BOOLEAN,
              agents : {{"salesforce"}, {"salesforce", "amadeus"}},
              schema_dict : BOOLEAN]
  /\ env.schema_dict => env.INSTRUMENTATION_AVAILABLE
  /\ request \in [dataset : Datasets, filters : RequestFilters,
                  handle : {"text", "no_text", "raises"},
                  references : {"clean", "hallucinated"},
                  headers : {NoHeaders}]
  /\ flask_g = NoG
  /\ response = NoResponse
  /\ returned = NoResponse
  /\ trace_call = NoCall
  /\ trace_file \in {<<>>, <<EarlierLine>>}
  /\ log_dir = IF trace_file = <<>> THEN {} ELSE {TodayFile}
  /\ handlers = <<>>
  /\ read_back = <<>>
  /\ panel = NoPanel
  /\ clock = 1
  /\ col_candidates = <<>>
  /\ col_found = NoneStr
  /\ NoRest

BeforeRequest ==
  /\ pc = "request_received"
  /\ pc' = "before_done"
  /\ flask_g' = before_request_telemetry(AnalyzePath(request.dataset))
  /\ UNCHANGED <<kpiVars, env, request, response, returned, trace_call,
                 trace_file, storeVars, colVars, restVars>>

\* the assignments of the view to flask.g and the response
ViewDone(out) ==
  /\ response' = out.response
  /\ flask_g' = [flask_g EXCEPT
                   !.start_time_model = request.dataset \in env.agents,
                   !.request_metadata = out.metadata]
  /\ summary' = out.metadata.extracted_metrics

AnalyzeDataset ==
  /\ pc = "before_done"
  /\ ViewDone(analyze_dataset(env, request, flask_g.request_metadata,
                             text, table, tol))
  /\ pc' = "view_returned"
  /\ UNCHANGED <<text, table, tol, claims, results, env, request, returned,
                 trace_call, trace_file, storeVars, colVars, restVars>>

\* the hook ends: the response goes back to Flask
HookDone(out) ==
  /\ pc' = IF out.raised THEN "after_raised" ELSE "request_done"
  /\ returned' = out.value
  /\ trace_call' = out.call
  /\ trace_file' \in out.files
  /\ log_dir' = IF Created(out.call) THEN log_dir \cup {TodayFile} ELSE log_dir

AfterRequest ==
  /\ pc = "view_returned"
  /\ \E fault \in IOFaults :
       HookDone(after_request_telemetry(env, flask_g, request.headers,
                                        response, clock, fault, trace_file))
  /\ UNCHANGED <<kpiVars, env, request, flask_g, response, handlers, read_back,
                 panel, clock, colVars, restVars>>

NextRequest == BeforeRequest \/ AnalyzeDataset \/ AfterRequest

SpecRequest == InitRequest /\ [][NextRequest]_vars

\* the agent of the request's dataset is loaded and produced an answer text
AgentAnswered == request.dataset \in env.agents /\ request.handle = "text"

\* C1: for every analyze request whose agent produced an answer, the status
\* and body returned are those of the same request served without
\* verification, whatever happens inside verify_answer, recompute_metrics or
\* validate_references.
C1_VerificationNeverChangesResponse ==
  (pc \in {"view_returned", "request_done"} /\ AgentAnswered) =>
    response = ResultResponse(TRUE, text)

\* C10: write_trace_log returns normally whatever I/O step fails, and
\* after_request_telemetry never raises and returns the response it was
\* given.
C10_TelemetryFailsSoft ==
  /\ pc # "after_raised"
  /\ trace_call.called => ~trace_call.raised
  /\ pc = "request_done" => returned = response

\* C10 witness: tracing is on, an I/O step of write_trace_log failed, and the
\* hook returned the answer response.
C10_Witness ==
  /\ pc = "request_done"
  /\ env.ENABLE_TRACING
  /\ trace_call.called
  /\ trace_call.fault \in {"mkdir", "open", "write", "flush", "fsync"}
  /\ response.status = 200
  /\ returned = response

(***************************************************************************)
(* kpi_rollup: the day file is read back and reduced to a KPI panel.       *)
(* The file is the sequence of the pieces written to it; besides the       *)
(* pieces write_trace_log leaves, a file may hold a blank line, a line     *)
(* that is no JSON, and a line whose bytes are no UTF-8.  The files        *)
(* modelled are shorter than one read chunk of the text decoder.           *)
(***************************************************************************)

BlankLine == [kind |-> "blank"]
MalformedLine == [kind |-> "malformed"]
UndecodableLine == [kind |-> "undecodable"]

\* the pieces that end with a newline and hold one JSON value: a piece that
\* follows the head of an unfinished line is the tail of that line
ParsableLines(file) ==
  {i \in 1..Len(file) :
     /\ file[i].kind = "record"
     /\ (i = 1 \/ file[i - 1].kind # "partial")}

RECURSIVE LoadAll(_, _)
LoadAll(file, order) ==
  IF order = <<>> THEN <<>>
  ELSE <<Loads(file[Head(order)].record)>> \o LoadAll(file, Tail(order))

read_traces(exists, file) ==
  IF ~exists THEN <<>>
  ELSE IF \E i \in 1..Len(file) : file[i].kind = "undecodable"
  THEN <<>>   \* UnicodeDecodeError of the first read, caught at line 48
  ELSE LoadAll(file, SortedRows(ParsableLines(file),
                                [i \in 1..Len(file) |-> i]))

\* a dict is truthy when it has a key
TruthyDict(d) == DOMAIN d # {}

\* numerator / denominator, None without a denominator
Rate(numerator, denominator) ==
  IF denominator = 0 THEN NoneNum ELSE Norm(<<numerator, denominator>>)

Count(traces, Test(_)) == Cardinality({i \in 1..Len(traces) : Test(traces[i])})

ExtractedMetrics(trace) == Get(trace, "extracted_metrics", EmptyDict)

\* extracted_metrics and extracted_metrics.get("has_numeric_claims")
HasNumericClaims(trace) ==
  /\ TruthyDict(ExtractedMetrics(trace))
  /\ Get(ExtractedMetrics(trace), "has_numeric_claims", FALSE)

GroundedPass(trace) ==
  Get(ExtractedMetrics(trace), "grounded_accuracy_pass", "None")

\* a variant of compute_grounded_accuracy_rate that counts a record with a
\* null verdict as evaluated (sensitivity of C19)
GroundedAccuracyRateOverClaims(traces) ==
  Rate(Count(traces, LAMBDA t : HasNumericClaims(t) /\ GroundedPass(t) = "True"),
       Count(traces, HasNumericClaims))

compute_grounded_accuracy_rate(traces) ==
  Rate(Count(traces, LAMBDA t : HasNumericClaims(t) /\ GroundedPass(t) = "True"),
       Count(traces, LAMBDA t : HasNumericClaims(t) /\ GroundedPass(t) # "None"))

compute_routing_accuracy(traces) ==
  Rate(Count(traces, LAMBDA t : Get(t, "router_correct", "None") = "True"),
       Count(traces, LAMBDA t : Get(t, "router_correct", "None") # "None"))

\* the endpoints compute_hallucination_rate counts as answer-producing
AnswerEndpoints == {<<"api", "analyze">>, <<"api", "agent">>}

GeneratedAnswer(trace) == Get(trace, "endpoint", <<>>) \in AnswerEndpoints

HasHallucinations(trace) ==
  /\ TruthyDict(ExtractedMetrics(trace))
  /\ Get(Get(ExtractedMetrics(trace), "hallucination_check", EmptyDict),
         "has_hallucinations", FALSE)

compute_hallucination_rate(traces) ==
  Rate(Count(traces, LAMBDA t : GeneratedAnswer(t) /\ HasHallucinations(t)),
       Count(traces, GeneratedAnswer))


\* trace.get("session_id", default)
SessionOf(trace, default) == Get(trace, "session_id", default)

\* a variant of ClaimTurns without the sort by timestamp: the records in the
\* order of the file (sensitivity of C29)
ClaimTurnsInFileOrder(traces, sid) ==
  SortedRows({i \in 1..Len(traces) :
                /\ HasNumericClaims(traces[i])
                /\ SessionOf(traces[i], <<"d","e","f","a","u","l","t">>) = sid},
             [i \in 1..Len(traces) |-> 0])

\* the places, in the list sorted by timestamp, of the records of one session
\* that hold numeric claims; a record without timestamp sorts first
ClaimTurns(traces, sid) ==
  SortedRows({i \in 1..Len(traces) :
                /\ HasNumericClaims(traces[i])
                /\ SessionOf(traces[i], <<"d","e","f","a","u","l","t">>) = sid},
             [i \in 1..Len(traces) |-> Get(traces[i], "timestamp_utc", 0)])

\* the values one record adds to metric_history[name]
ValuesOf(cs, name) ==
  LET sel == SelectSeq(cs, LAMBDA c : /\ Get(c, "name", <<>>) = name
                                      /\ Get(c, "value", NoneNum) # NoneNum)
  IN  [i \in 1..Len(sel) |-> sel[i].value]

\* metric_history[name] of one session
RECURSIVE ClaimedValues(_, _, _)
ClaimedValues(traces, order, name) ==
  IF order = <<>> THEN <<>>
  ELSE ValuesOf(Get(ExtractedMetrics(traces[Head(order)]), "all_claims", <<>>),
                name)
       \o ClaimedValues(traces, Tail(order), name)

\* the keys of metric_history
MetricNames(traces, order) ==
  UNION {{Get(c, "name", <<>>) :
            c \in Values(Get(ExtractedMetrics(traces[i]), "all_claims", <<>>))}
         : i \in Values(order)} \ {<<>>}

ContradictionThreshold == <<1, 10>>

\* a variant of Contradicts that compares with the later value (sensitivity
\* of C15)
ContradictsLater(prev_val, curr_val) ==
  /\ curr_val[1] # 0
  /\ RLt(ContradictionThreshold,
         RDiv(RAbs(RSub(curr_val, prev_val)), RAbs(curr_val)))

\* two successive values of one metric contradict each other
Contradicts(prev_val, curr_val) ==
  /\ prev_val[1] # 0
  /\ RLt(ContradictionThreshold,
         RDiv(RAbs(RSub(curr_val, prev_val)), RAbs(prev_val)))

HasContradiction(values) ==
  \E i \in 2..Len(values) : Contradicts(values[i - 1], values[i])

SessionContradicts(traces, order) ==
  \E name \in MetricNames(traces, order) :
    HasContradiction(ClaimedValues(traces, order, name))

\* the keys of the sessions dict a function builds over the records Test
\* selects
SessionKeys(traces, default, Test(_)) ==
  {SessionOf(traces[i], default) :
     i \in {k \in 1..Len(traces) : Test(traces[k])}}

ContradictedSessions(traces, sessions) ==
  {sid \in sessions : SessionContradicts(traces, ClaimTurns(traces, sid))}

compute_contradiction_rate(traces) ==
  Rate(Cardinality(ContradictedSessions(
                     traces, SessionKeys(traces, <<"d","e","f","a","u","l","t">>, HasNumericClaims))),
       Cardinality(SessionKeys(traces, <<"d","e","f","a","u","l","t">>, HasNumericClaims)))

\* trace.get("user_id", session_id): the default only replaces a missing key
UserOf(trace) == Get(trace, "user_id", SessionOf(trace, <<"a","n","o","n","y","m","o","u","s">>))

compute_adoption_metrics(traces) ==
  [wau |-> Cardinality({UserOf(traces[i]) : i \in 1..Len(traces)}),
   sessions |-> Cardinality(SessionKeys(traces, <<"a","n","o","n","y","m","o","u","s">>, LAMBDA t : TRUE)),
   queries_per_session |->
     IF Len(traces) = 0 THEN RInt(0)
     ELSE Norm(<<Len(traces),
                 Cardinality(SessionKeys(traces, <<"a","n","o","n","y","m","o","u","s">>,
                                         LAMBDA t : TRUE))>>),
   total_queries |-> Len(traces)]


\* sessions[session_id]: the records of one session, in file order
SessionTurns(traces, sid) ==
  SelectSeq(traces, LAMBDA t : SessionOf(t, <<"d","e","f","a","u","l","t">>) = sid)

Resolved(trace) == Get(trace, "resolved", FALSE)

\* a variant of FirstResolved that counts the turns of the whole session
\* (sensitivity of C16)
SessionLength(turns) == Len(turns)

\* i + 1 of the first record of the session that is resolved
FirstResolved(turns) == SetMin({i \in 1..Len(turns) : Resolved(turns[i])})

\* the sessions in the order their first record appears in the file
FirstTurns(traces, sessions) ==
  SortedRows({SetMin({i \in 1..Len(traces) :
                        SessionOf(traces[i], <<"d","e","f","a","u","l","t">>) = sid}) :
                sid \in sessions},
             [i \in 1..Len(traces) |-> i])

SessionOrder(traces, sessions) ==
  [k \in 1..Cardinality(sessions) |->
     SessionOf(traces[FirstTurns(traces, sessions)[k]], <<"d","e","f","a","u","l","t">>)]

\* np.percentile(turns_to_resolution, 50), None for an empty list
TurnsP50(turns) == IF Len(turns) = 0 THEN NoneVal ELSE Median(turns)

\* the dict returned, with the local list turns_to_resolution and the session
\* each of its entries belongs to kept beside it
Resolution(traces, sessions, order) ==
  [sessions_resolved_rate |-> Rate(Len(order), Cardinality(sessions)),
   resolved_sessions |-> order,
   turns_to_resolution |->
     [k \in 1..Len(order) |-> FirstResolved(SessionTurns(traces, order[k]))],
   turns_to_resolution_p50 |->
     TurnsP50([k \in 1..Len(order) |->
                 FirstResolved(SessionTurns(traces, order[k]))])]

ResolvedSessions(traces, sessions) ==
  {sid \in sessions :
     \E i \in 1..Len(traces) :
       SessionOf(traces[i], <<"d","e","f","a","u","l","t">>) = sid /\ Resolved(traces[i])}

compute_resolution_metrics(traces) ==
  Resolution(traces, SessionKeys(traces, <<"d","e","f","a","u","l","t">>, LAMBDA t : TRUE),
             SessionOrder(traces,
                          ResolvedSessions(traces,
                                           SessionKeys(traces, <<"d","e","f","a","u","l","t">>,
                                                       LAMBDA t : TRUE))))

\* the panel of a day that has records; metric_parity_mape and latency are
\* reductions of the error and latency fields, which the records modelled do
\* not carry
Kpis(traces) ==
  [date |-> "today",
   trace_count |-> Len(traces),
   grounded_accuracy_rate |-> compute_grounded_accuracy_rate(traces),
   routing_accuracy |-> compute_routing_accuracy(traces),
   hallucination_rate |-> compute_hallucination_rate(traces),
   contradiction_rate |-> compute_contradiction_rate(traces),
   adoption |-> compute_adoption_metrics(traces),
   resolution |-> compute_resolution_metrics(traces)]

\* a variant of Rolled without the test for an empty list (sensitivity of
\* C13)
RolledUnguarded(traces) == Kpis(traces)

\* rollup once the file is read
Rolled(traces) ==
  IF Len(traces) = 0
  THEN [date |-> "today", trace_count |-> 0, error |-> "No traces found"]
  ELSE Kpis(traces)

\* rollup(traces_dir / today's file name)
rollup(dir, file) == Rolled(read_traces(TodayFile \in dir, file))

rollup_today(dir, file) ==
  IF TodayFile \notin dir
  THEN [date |-> "today", trace_count |-> 0, error |-> "No traces for today"]
  ELSE rollup(dir, file)


(***************************************************************************)
(* Calls of rollup and rollup_today on bounded day files                   *)
(***************************************************************************)

MaxLines == 3

\* all_claims entries: the name and the value of a claim
Claimed(name, value) == [name |-> name, value |-> value]

\* a VerificationSummary of a record that had numeric claims
ClaimsMetrics(pass, cs) ==
  [has_numeric_claims |-> TRUE, grounded_accuracy_pass |-> pass,
   all_claims |-> cs]

\* a record as after_request_telemetry writes it
Stored(endpoint, session_id, user_id, now, metrics) ==
  TraceLine([timestamp_utc |-> now, endpoint |-> endpoint,
             extracted_metrics |-> metrics, router_correct |-> "None",
             session_id |-> session_id, user_id |-> user_id,
             resolved |-> FALSE], TRUE)

\* a record as the tests of the rollup write it: only the keys they need
Handwritten(object) == [kind |-> "record", record |-> object]

RollupLines ==
  { BlankLine, MalformedLine, UndecodableLine,
    Stored(AnalyzePath("salesforce"), <<"s","1">>, NoneStr, 1,
           WithCheck(ClaimsMetrics("True",
                                   <<Claimed(<<"f","l","o","w","_","e","f","f","i","c","i","e","n","c","y">>, <<6, 10>>)>>),
                     "hallucinated")),
    Stored(AnalyzePath("salesforce"), <<"s","1">>, NoneStr, 2,
           WithCheck(ClaimsMetrics("False",
                                   <<Claimed(<<"f","l","o","w","_","e","f","f","i","c","i","e","n","c","y">>, <<8, 10>>)>>),
                     "clean")),
    Stored(AnalyzePath("salesforce"), <<"s","2">>, NoneStr, 3,
           ClaimsMetrics("None", <<Claimed(<<"f","l","o","w","_","e","f","f","i","c","i","e","n","c","y">>, <<61, 100>>),
                                   Claimed(<<"c","a","s","e","s">>, <<0, 1>>)>>)),
    Stored(AnalyzePath("amadeus"), <<"s","2">>, <<"u","1">>, 4,
           ClaimsMetrics("True", <<Claimed(<<"c","a","s","e","s">>, <<5, 1>>)>>)),
    Stored(<<"api", "health">>, <<"a","n","o","n","y","m","o","u","s">>, NoneStr, 5, EmptyDict),
    Handwritten([endpoint |-> <<"api", "analyze">>,
                 extracted_metrics |->
                   WithCheck(NoClaimsSummary, "hallucinated")]),
    Handwritten([endpoint |-> <<"api", "agent">>, session_id |-> <<"s","1">>,
                 user_id |-> <<"u","1">>, resolved |-> FALSE,
                 extracted_metrics |-> WithCheck(NoClaimsSummary, "clean")]),
    Handwritten([session_id |-> <<"s","1">>, resolved |-> TRUE]),
    Handwritten([session_id |-> <<"s","2">>, user_id |-> <<"u","1">>, resolved |-> TRUE,
                 timestamp_utc |-> 1,
                 extracted_metrics |->
                   ClaimsMetrics("True",
                                 <<Claimed(<<"f","l","o","w","_","e","f","f","i","c","i","e","n","c","y">>, <<66, 100>>)>>)])
  }

InitRollup ==
  /\ pc = "rollup_call"
  /\ text = <<>>
  /\ table = NoTable
  /\ tol = DefaultTolerance
  /\ claims = <<>>
  /\ results = <<>>
  /\ summary = NoSummary
  /\ NoRequest
  /\ trace_file \in BoundedSeq(RollupLines, MaxLines)
  /\ log_dir \in {{}, {TodayFile}}
  /\ trace_file # <<>> => TodayFile \in log_dir
  /\ handlers = <<>>
  /\ read_back = <<>>
  /\ panel = NoPanel
  /\ clock = 1
  /\ col_candidates = <<>>
  /\ col_found = NoneStr
  /\ NoRest

\* rollup(day_path) for the path of the day's file
CallRollup ==
  /\ pc = "rollup_call"
  /\ pc' = "rollup_returned"
  /\ read_back' = read_traces(TodayFile \in log_dir, trace_file)
  /\ panel' = rollup(log_dir, trace_file)
  /\ UNCHANGED <<kpiVars, httpVars, log_dir, handlers, clock, colVars, restVars>>

\* rollup_today(traces_dir)
CallRollupToday ==
  /\ pc = "rollup_call"
  /\ pc' = "rollup_today_returned"
  /\ read_back' = read_traces(TodayFile \in log_dir, trace_file)
  /\ panel' = rollup_today(log_dir, trace_file)
  /\ UNCHANGED <<kpiVars, httpVars, log_dir, handlers, clock, colVars, restVars>>

NextRollup == CallRollup \/ CallRollupToday

SpecRollup == InitRollup /\ [][NextRollup]_vars


RollupReturned == pc \in {"rollup_returned", "rollup_today_returned"}

\* the day file holds no line that parses as JSON
NoParsableLine ==
  \A i \in 1..Len(trace_file) :
    trace_file[i].kind \in {"blank", "malformed", "undecodable"}

\* C13: rollup on a day file that is absent, empty or without a parsable
\* line returns a panel with trace_count = 0 and a non-null error, and so does
\* rollup_today when today's file does not exist; neither raises.
C13_EmptyDayPanel ==
  (RollupReturned /\ (TodayFile \notin log_dir \/ NoParsableLine)) =>
    /\ panel.trace_count = 0
    /\ Get(panel, "error", "None") # "None"

\* C13 witness: rollup returned for a file that exists and holds only a
\* malformed and a blank line.
C13_Witness ==
  /\ pc = "rollup_returned"
  /\ trace_file = <<MalformedLine, BlankLine>>
  /\ panel.trace_count = 0
  /\ panel.error = "No traces found"

\* the records of the non-blank lines that parse as JSON, in file order
WellFormedRecords(file) ==
  LoadAll(file, SortedRows({i \in 1..Len(file) : file[i].kind = "record"},
                           [i \in 1..Len(file) |-> i]))

\* C14: for every trace file content read_traces returns exactly the records
\* of the non-blank lines that parse as JSON, in file order; a malformed line
\* never prevents an earlier or a later well-formed line from being returned.
C14_ReadsEveryWellFormedLine ==
  (RollupReturned /\ TodayFile \in log_dir) =>
    read_back = WellFormedRecords(trace_file)

\* the claims of one session's records, in timestamp order
RECURSIVE SessionClaims(_, _)
SessionClaims(ts, order) ==
  IF order = <<>> THEN <<>>
  ELSE Get(ExtractedMetrics(ts[Head(order)]), "all_claims", <<>>)
       \o SessionClaims(ts, Tail(order))

\* two claims of the list are consecutive values of one metric
Consecutive(cs, i, j) ==
  /\ i < j
  /\ cs[i].name = cs[j].name
  /\ \A k \in (i + 1)..(j - 1) : cs[k].name # cs[i].name

\* the later value differs from the earlier one by more than 10% of the
\* earlier one
DiffersByTenth(earlier, later) ==
  RLt(<<Abs(earlier[1]), 10 * earlier[2]>>, RAbs(RSub(later, earlier)))

C15_Contradicted(ts, Differs(_, _)) ==
  {sid \in SessionKeys(ts, <<"d","e","f","a","u","l","t">>, HasNumericClaims) :
     \E i, j \in 1..Len(SessionClaims(ts, ClaimTurns(ts, sid))) :
       /\ Consecutive(SessionClaims(ts, ClaimTurns(ts, sid)), i, j)
       /\ Differs(SessionClaims(ts, ClaimTurns(ts, sid))[i].value,
                  SessionClaims(ts, ClaimTurns(ts, sid))[j].value)}

SessionPlaces(ts, sid) ==
  {i \in 1..Len(ts) : SessionOf(ts[i], <<"d","e","f","a","u","l","t">>) = sid}

\* C16: sessions_resolved_rate is the share of the sessions that have a
\* record with resolved = true, and the turns-to-resolution of a resolved
\* session is the 1-based position, among that session's records, of its
\* first resolved record: between 1 and the session's record count.
C16_Resolution ==
  (RollupReturned /\ panel.trace_count > 0) =>
    LET res == panel.resolution
        all == {SessionOf(read_back[i], <<"d","e","f","a","u","l","t">>) : i \in 1..Len(read_back)}
        done == {sid \in all :
                   \E i \in SessionPlaces(read_back, sid) :
                     Resolved(read_back[i])}
    IN  /\ res.sessions_resolved_rate =
             Norm(<<Cardinality(done), Cardinality(all)>>)
        /\ Values(res.resolved_sessions) = done
        /\ Len(res.resolved_sessions) = Cardinality(done)
        /\ \A k \in 1..Len(res.resolved_sessions) :
             LET mine == SessionPlaces(read_back, res.resolved_sessions[k])
                 first == SetMin({i \in mine : Resolved(read_back[i])})
             IN  /\ res.turns_to_resolution[k] =
                      Cardinality({i \in mine : i <= first})
                 /\ res.turns_to_resolution[k] \in 1..Cardinality(mine)

\* C16 witness: a session of three records is resolved at its second record.
C16_Witness ==
  /\ RollupReturned
  /\ Len(read_back) = 3
  /\ \A i \in 1..3 : SessionOf(read_back[i], <<"d","e","f","a","u","l","t">>) = <<"s","1">>
  /\ ~Resolved(read_back[1]) /\ Resolved(read_back[2])
  /\ panel.resolution.turns_to_resolution = <<2>>
  /\ panel.resolution.sessions_resolved_rate = <<1, 1>>

\* an endpoint of the analyze or agent routes: /api/analyze/<dataset>,
\* /api/agent
AnswerProducing(trace) ==
  LET e == Get(trace, "endpoint", <<>>)
  IN  Len(e) >= 2 /\ e[1] = "api" /\ e[2] \in {"analyze", "agent"}

\* has_hallucinations of the record's hallucination check is true
Hallucinated(trace) ==
  LET em == Get(trace, "extracted_metrics", EmptyDict)
  IN  Get(Get(em, "hallucination_check", EmptyDict), "has_hallucinations",
          FALSE)

\* C17: the hallucination rate counts every record of an answer-producing
\* endpoint in its denominator and the hallucinated ones among them in its
\* numerator; it is non-null and within [0,1] when such a record exists.
C17_HallucinationRate ==
  (RollupReturned /\ panel.trace_count > 0) =>
    LET answers == {i \in 1..Len(read_back) : AnswerProducing(read_back[i])}
    IN  /\ panel.hallucination_rate =
             Rate(Cardinality({i \in answers : Hallucinated(read_back[i])}),
                  Cardinality(answers))
        /\ answers # {} => panel.hallucination_rate # NoneNum

\* the user a record is attributed to: its user_id when it carries one, its
\* session_id otherwise
EffectiveUser(trace) ==
  IF Get(trace, "user_id", NoneStr) # NoneStr THEN trace.user_id
  ELSE Get(trace, "session_id", <<"a","n","o","n","y","m","o","u","s">>)

\* C18: wau is the number of distinct effective users, a record without
\* user_id (also one written with user_id null) being attributed to its
\* session_id; sessions is the number of distinct session ids and
\* total_queries the number of records.
C18_Adoption ==
  (RollupReturned /\ panel.trace_count > 0) =>
    /\ panel.adoption.wau =
         Cardinality({EffectiveUser(read_back[i]) : i \in 1..Len(read_back)})
    /\ panel.adoption.sessions =
         Cardinality({Get(read_back[i], "session_id", <<"a","n","o","n","y","m","o","u","s">>) :
                        i \in 1..Len(read_back)})
    /\ panel.adoption.total_queries = Len(read_back)

\* the records that had numeric claims and an evaluable verdict
Evaluable(ts) ==
  {i \in 1..Len(ts) :
     LET em == Get(ts[i], "extracted_metrics", EmptyDict)
     IN  /\ Get(em, "has_numeric_claims", FALSE)
         /\ Get(em, "grounded_accuracy_pass", "None") # "None"}

MaxCols == 3

ColumnNames ==
  {<<"c","a","s","e","_","i","d">>, <<"C","a","s","e","_","I","D">>, <<"m","y","_","i","d">>, <<"c","a","s","e","_","n","u","m","b","e","r">>, <<"u","s","e","r">>}

CandidateLists == {CaseCandidates, UserCandidates, <<<<"n","u","m","b","e","r">>, <<"U","S","E","R">>>>}

InitColumns ==
  /\ pc = "find_column_call"
  /\ text = <<>>
  /\ table \in {Table(cols, <<>>) : cols \in BoundedSeq(ColumnNames, MaxCols)}
  /\ tol = DefaultTolerance
  /\ claims = <<>>
  /\ results = <<>>
  /\ summary = NoSummary
  /\ NoRequest
  /\ trace_file = <<>>
  /\ log_dir = {}
  /\ handlers = <<>>
  /\ read_back = <<>>
  /\ panel = NoPanel
  /\ clock = 1
  /\ col_candidates \in CandidateLists
  /\ col_found = NoneStr
  /\ NoRest

CallFindColumn ==
  /\ pc = "find_column_call"
  /\ pc' = "find_column_returned"
  /\ col_found' = find_column(table, col_candidates)
  /\ UNCHANGED <<kpiVars, httpVars, storeVars, col_candidates, restVars>>

SpecColumns == InitColumns /\ [][CallFindColumn]_vars

\* the places of the candidates that Matches(candidate, column) relates to
\* some column of the table, both lower-cased
Matching(df, cands, Matches(_, _)) ==
  {k \in 1..Len(cands) :
     \E i \in 1..Len(df.cols) : Matches(Lower(cands[k]), Lower(df.cols[i]))}

\* C20: find_column returns the column equal, case-insensitively, to the
\* earliest candidate that has such a column; otherwise a column that
\* contains the earliest candidate contained in any column; otherwise none.
\* The table is left as it was.
C20_FindColumn ==
  pc = "find_column_returned" =>
    LET exact == Matching(table, col_candidates, LAMBDA c, n : c = n)
        sub == Matching(table, col_candidates, Contains)
    IN  IF exact # {}
        THEN /\ col_found \in Values(table.cols)
             /\ Lower(col_found) = Lower(col_candidates[SetMin(exact)])
        ELSE IF sub # {}
        THEN /\ col_found \in Values(table.cols)
             /\ Contains(Lower(col_candidates[SetMin(sub)]), Lower(col_found))
        ELSE col_found = NoneStr


(***************************************************************************)
(* The trace store under concurrent requests.  Each handler serves one     *)
(* request: the before_request hook, a view, and the after_request hook,   *)
(* whose call of write_trace_log opens the day's file for append and then  *)
(* writes the line.  What the view does is an input of the request: the    *)
(* kind of response it returns (jsonify or send_file) and the              *)
(* extracted_metrics it leaves in request_metadata.  Handlers are threads  *)
(* of one server or processes of several; they share only the file.        *)
(* Rollups read the file at any time.                                      *)
(***************************************************************************)

MaxHandlers == 2

\* send_file(buffer, ...): a response in direct passthrough mode, whose
\* get_data() raises RuntimeError
FileResponse ==
  [status |-> 200, has_text |-> FALSE, text |-> <<>>, error |-> "None",
   direct_passthrough |-> TRUE]

StoreRequests ==
  { [path |-> AnalyzePath("salesforce"), view |-> "json",
     headers |-> NoHeaders,
     metrics |-> WithCheck(ClaimsMetrics("True",
                                         <<Claimed(<<"c","a","s","e","s">>, <<5, 1>>)>>),
                           "hallucinated")],
    [path |-> <<"api", "health">>, view |-> "json",
     headers |-> [Host |-> <<"l","o","c","a","l","h","o","s","t">>] @@ ("X-Session-ID" :> <<"s","1">>)
                   @@ ("X-User-ID" :> <<"u","1">>),
     metrics |-> NoSummary],
    [path |-> <<"api", "export", "pdf">>, view |-> "file",
     headers |-> NoHeaders, metrics |-> NoSummary] }

NoHandler ==
  [pc |-> "idle", request |-> <<>>, g |-> NoG, response |-> NoResponse,
   record |-> EmptyDict, offset |-> 0, fault |-> "none"]

\* a variant of OpenAppend for a file opened at its end without O_APPEND:
\* the write lands at the offset of the open (sensitivity of C12)
OpenAtOffset(file, offset) == SubSeq(file, 1, offset)

\* open(trace_file, 'a'): every write lands at the end the file has when the
\* write is made, whatever the offset was when the file was opened
OpenAppend(file, offset) == file

InitStore ==
  /\ pc = "serving"
  /\ text = <<>>
  /\ table = NoTable
  /\ tol = DefaultTolerance
  /\ claims = <<>>
  /\ results = <<>>
  /\ summary = NoSummary
  /\ env \in [ENABLE_TRACING : BOOLEAN, INSTRUMENTATION_AVAILABLE : {TRUE},
              agents : {{"salesforce"}}, schema_dict : {TRUE}]
  /\ request = [dataset |-> "None", filters |-> NoFilters, handle |-> "none",
                references |-> "clean", headers |-> NoHeaders]
  /\ flask_g = NoG
  /\ response = NoResponse
  /\ returned = NoResponse
  /\ trace_call = NoCall
  /\ trace_file \in {<<>>, <<EarlierLine>>}
  /\ log_dir = IF trace_file = <<>> THEN {} ELSE {TodayFile}
  /\ handlers = [h \in 1..MaxHandlers |-> NoHandler]
  /\ read_back = <<>>
  /\ panel = NoPanel
  /\ clock = 1
  /\ col_candidates = <<>>
  /\ col_found = NoneStr
  /\ NoRest

StoreFrame ==
  UNCHANGED <<pc, kpiVars, env, request, flask_g, response, returned,
              trace_call, colVars, restVars>>

\* a request arrives: before_request_telemetry
HandlerBefore(h) ==
  /\ handlers[h].pc = "idle"
  /\ \E r \in StoreRequests :
       handlers' = [handlers EXCEPT
                      ![h].pc = "before_done",
                      ![h].request = r,
                      ![h].g = before_request_telemetry(r.path)]
  /\ StoreFrame
  /\ UNCHANGED <<trace_file, log_dir, read_back, panel, clock>>

\* the view returns its response
HandlerView(h) ==
  /\ handlers[h].pc = "before_done"
  /\ handlers' = [handlers EXCEPT
                    ![h].pc = "view_returned",
                    ![h].response =
                      IF handlers[h].request.view = "file" THEN FileResponse
                      ELSE ResultResponse(FALSE, <<>>),
                    ![h].g.request_metadata.extracted_metrics =
                      handlers[h].request.metrics]
  /\ StoreFrame
  /\ UNCHANGED <<trace_file, log_dir, read_back, panel, clock>>

\* after_request_telemetry up to its call of write_trace_log
Built(h, fault, out) ==
  /\ handlers' = [handlers EXCEPT
                    ![h].pc = IF out.call.called /\ env.ENABLE_TRACING
                              THEN "record_built" ELSE "request_done",
                    ![h].fault = fault,
                    ![h].record =
                      IF out.call.called
                      THEN TraceRecord(handlers[h].g.request_metadata,
                                       handlers[h].request.headers, clock)
                      ELSE EmptyDict]
  /\ clock' = IF out.call.called THEN clock + 1 ELSE clock

HandlerBuild(h) ==
  /\ handlers[h].pc = "view_returned"
  /\ \E fault \in {"none", "record"} :
       Built(h, fault,
             after_request_telemetry(env, handlers[h].g,
                                     handlers[h].request.headers,
                                     handlers[h].response, clock, fault,
                                     trace_file))
  /\ StoreFrame
  /\ UNCHANGED <<trace_file, log_dir, read_back, panel>>

\* write_trace_log: traces_dir.mkdir and open(trace_file, 'a')
HandlerOpen(h) ==
  /\ handlers[h].pc = "record_built"
  /\ \E fault \in {"none", "mkdir", "open"} :
       /\ handlers' = [handlers EXCEPT
                         ![h].pc = IF fault = "none" THEN "file_open"
                                   ELSE "request_done",
                         ![h].fault = fault,
                         ![h].offset = Len(trace_file)]
       /\ log_dir' = IF fault = "none" THEN log_dir \cup {TodayFile}
                     ELSE log_dir
  /\ StoreFrame
  /\ UNCHANGED <<trace_file, read_back, panel, clock>>

\* write_trace_log: f.write, f.flush, os.fsync and the close of the file;
\* the hook then returns the response
HandlerWrite(h) ==
  /\ handlers[h].pc = "file_open"
  /\ \E fault \in {"none", "dumps", "write", "flush", "fsync"} :
       /\ handlers' = [handlers EXCEPT ![h].pc = "request_done",
                                       ![h].fault = fault]
       /\ trace_file' \in
            write_trace_log(env, handlers[h].record, fault,
                            OpenAppend(trace_file, handlers[h].offset)).files
  /\ StoreFrame
  /\ UNCHANGED <<log_dir, read_back, panel, clock>>

\* rollup_today(traces_dir), as the view of /api/kpis/today calls it
RollupToday ==
  /\ panel' = rollup_today(log_dir, trace_file)
  /\ read_back' = read_traces(TodayFile \in log_dir, trace_file)
  /\ StoreFrame
  /\ UNCHANGED <<trace_file, log_dir, handlers, clock>>

NextStore ==
  \/ \E h \in 1..MaxHandlers :
       \/ HandlerBefore(h)
       \/ HandlerView(h)
       \/ HandlerBuild(h)
       \/ HandlerOpen(h)
       \/ HandlerWrite(h)
  \/ RollupToday

SpecStore == InitStore /\ [][NextStore]_vars


(***************************************************************************)
(* Claims about the trace store                                            *)
(***************************************************************************)

Completed == {h \in 1..MaxHandlers : handlers[h].pc = "request_done"}

\* no mkdir, open, serialisation, write, flush or fsync failed, and no
\* exception was raised while a record was put together
NoFault == \A h \in 1..MaxHandlers : handlers[h].fault = "none"

\* the lines appended since the start of the behaviour (the line that was in
\* the file before carries timestamp 0)
AppendedLines ==
  {i \in 1..Len(trace_file) :
     trace_file[i].kind # "record"
       \/ trace_file[i].record.timestamp_utc > 0}

IsPrefix(s, t) == Len(s) <= Len(t) /\ SubSeq(t, 1, Len(s)) = s

OneLinePerRequest ==
  (env.ENABLE_TRACING /\ NoFault)
    => Cardinality(AppendedLines) = Cardinality(Completed)

AppendOnly == IsPrefix(trace_file, trace_file')

\* C11: the trace file only grows by appending, and with tracing enabled and
\* no I/O fault every completed request has appended exactly one line
C11_AppendOnlyOneLinePerRequest ==
  [] OneLinePerRequest /\ [][AppendOnly]_vars

Finalized ==
  {h \in Completed : TruthyDict(handlers[h].record)}

CompleteRecords ==
  {EarlierLine} \cup
    {TraceLine(handlers[h].record, TRUE) : h \in 1..MaxHandlers}

\* C12: without faults, however the appends of concurrent handlers
\* interleave, every line of the file is exactly one complete trace record
\* and the record of every handler that finished its write is in the file
C12_ConcurrentAppends ==
  NoFault =>
    /\ \A i \in 1..Len(trace_file) : trace_file[i] \in CompleteRecords
    /\ \A h \in Finalized :
         \E i \in 1..Len(trace_file) :
           trace_file[i] = TraceLine(handlers[h].record, TRUE)

\* two handlers had the file open at the same time and both have written
C12_Witness ==
  /\ NoFault
  /\ Cardinality(Finalized) = 2
  /\ \E h, k \in Finalized :
       /\ h # k
       /\ handlers[h].offset = handlers[k].offset
  /\ Cardinality(AppendedLines) = 2


(***************************************************************************)
(* Claims about verify_answer on a text without claims                     *)
(***************************************************************************)

\* extract_numeric_claims(text) returned the empty list
ZeroClaims ==
  /\ ~extract_numeric_claims(text).raised
  /\ Len(extract_numeric_claims(text).value) = 0

ZeroClaimsStep == pc = "verify_call" /\ pc' = "verify_returned" /\ ZeroClaims

\* C24: a call of verify_answer on a text that yields zero claims returns
\* has_numeric_claims false, grounded_accuracy_pass None, the three counts
\* 0 and no verification result, and leaves the table slice as it was
C24_NoClaimsSummary ==
  [][ZeroClaimsStep =>
       /\ summary'.has_numeric_claims = FALSE
       /\ summary'.grounded_accuracy_pass = "None"
       /\ summary'.claims_verified = 0
       /\ summary'.claims_passed = 0
       /\ summary'.claims_failed = 0
       /\ summary'.verification_results = <<>>
       /\ table' = table]_vars

\* a call on a non-empty text without claims, over a non-empty table, returned
C24_Witness ==
  /\ pc = "verify_returned"
  /\ ZeroClaims
  /\ Len(text) > 0
  /\ Len(table.rows) > 0


(***************************************************************************)
(* Calls of recompute_metrics with claims about the aging buckets          *)
(***************************************************************************)

Day == 86400

AgingCols == <<<<"c","a","s","e","_","i","d">>, <<"u","s","e","r">>, <<"s","t","a","r","t","_","t","i","m","e">>>>

\* cases that started 0, 1, 10 and 20 days before the last start of the table
AgingTables ==
  { Table(AgingCols, <<<<<<"1">>, <<"A","l","i","c","e">>, 20 * Day>>,
                       <<<<"2">>, <<"B","o","b">>, 19 * Day>>,
                       <<<<"3">>, <<"B","o","b">>, 10 * Day>>>>),
    Table(AgingCols, <<<<<<"1">>, <<"A","l","i","c","e">>, 20 * Day>>,
                       <<<<"2">>, <<"B","o","b">>, 0>>,
                       <<<<"3">>, <<"B","o","b">>, 0>>,
                       <<<<"4">>, <<"B","o","b">>, 1 * Day>>>>),
    Table(AgingCols, <<<<<<"1">>, <<"A","l","i","c","e">>, 20 * Day>>,
                       <<<<"1">>, <<"B","o","b">>, 20 * Day>>,
                       <<<<"2">>, <<"B","o","b">>, 10 * Day>>,
                       <<<<"3">>, <<"B","o","b">>, 9 * Day>>>>) }

\* a claim of a facts block: raw_text = f"{metric_name}={metric_value}"
FactsClaim(name, lit) ==
  Claim(name, NoneStr, ParseFloat(lit), <<>>, name \o <<"=">> \o lit, TRUE)

\* a claim of pattern 1: raw_text = match.group(0)
ProseClaim(name, lit) ==
  Claim(name, NoneStr, ParseFloat(lit), <<>>, name \o <<":"," ">> \o lit, FALSE)

AgingClaims ==
  { FactsClaim(<<"a","g","i","n","g","_",">","1","4","d">>, <<"0">>),
    FactsClaim(<<"a","g","i","n","g","_","8","-","1","4","d">>, <<"1">>),
    FactsClaim(<<"a","g","i","n","g","_","0","-","7","d">>, <<"2">>),
    ProseClaim(<<"a","g","i","n","g","_","8","_","1","4","d">>, <<"1">>),
    ProseClaim(<<"a","g","i","n","g","_","8","_","1","4">>, <<"1">>),
    ProseClaim(<<"a","g","i","n","g","_","0","_","7">>, <<"2">>),
    ProseClaim(<<"a","g","i","n","g","_","0","_","7","d">>, <<"2">>),
    ProseClaim(<<"c","a","s","e","_","a","g","e">>, <<"3">>) }

InitAging ==
  /\ pc = "recompute_call"
  /\ text = <<>>
  /\ table \in AgingTables
  /\ tol = DefaultTolerance
  /\ claims \in BoundedSeq(AgingClaims, MaxClaims)
  /\ results = <<>>
  /\ summary = NoSummary
  /\ NoHttp

SpecAging == InitAging /\ [][CallRecompute]_vars

Mentions(claim, sub) ==
  Contains(sub, claim.name) \/ Contains(sub, claim.raw_text)

\* the bucket a claim designates, by the bucket's label in its name or text
Designates(claim, bucket) ==
  CASE bucket = "8-14d" -> Mentions(claim, <<"8","-","1","4">>) \/ Mentions(claim, <<"8","_","1","4">>)
    [] bucket = "0-7d" -> Mentions(claim, <<"0","-","7">>) \/ Mentions(claim, <<"0","_","7">>)
    [] bucket = ">14d" -> Mentions(claim, <<">","1","4","d">>)

BucketCount(aging, bucket) ==
  CASE bucket = "8-14d" -> aging.b814
    [] bucket = "0-7d" -> aging.b07
    [] bucket = ">14d" -> aging.b14

\* C25: the value recomputed for a claim that designates one of the three
\* aging buckets is the count of that bucket
C25_DesignatedBucket ==
  pc = "recompute_returned" =>
    \A i \in 1..Len(claims) :
      \A bucket \in {"0-7d", "8-14d", ">14d"} :
        Designates(claims[i], bucket) =>
          results[i].recomputed
            = Num(RInt(BucketCount(case_aging_buckets(table), bucket)))


(***************************************************************************)
(* Claims about the order of the lines of a day file                       *)
(***************************************************************************)

\* the lines of `file` in the order p
Permuted(file, p) == [i \in 1..Len(file) |-> file[p[i]]]

\* every record carries a timestamp and no two records carry the same
DistinctTimestamps(traces) ==
  /\ \A i \in 1..Len(traces) : "timestamp_utc" \in DOMAIN traces[i]
  /\ \A i, j \in 1..Len(traces) :
       i # j => traces[i].timestamp_utc # traces[j].timestamp_utc

\* C29: for records with pairwise distinct timestamps, the contradiction rate
\* of every permutation of the lines of the file is the rate the rollup of the
\* file returned
C29_OrderIndependent ==
  (RollupReturned /\ panel.trace_count > 0 /\ DistinctTimestamps(read_back)) =>
    \A p \in Permutations(1..Len(trace_file)) :
      compute_contradiction_rate(
        read_traces(TRUE, Permuted(trace_file, p))) = panel.contradiction_rate

\* a session claimed cases 0 and later cases 5, and the later record comes
\* first in the file: in timestamp order the pair is no contradiction, in file
\* order it would be one
C29_Witness ==
  /\ RollupReturned
  /\ Len(read_back) = 2
  /\ DistinctTimestamps(read_back)
  /\ \A i \in 1..2 : HasNumericClaims(read_back[i])
  /\ SessionOf(read_back[1], <<"d","e","f","a","u","l","t">>) = SessionOf(read_back[2], <<"d","e","f","a","u","l","t">>)
  /\ read_back[1].timestamp_utc > read_back[2].timestamp_utc
  /\ \E c \in Values(read_back[1].extracted_metrics.all_claims) :
       c.name = <<"c","a","s","e","s">> /\ c.value = <<5, 1>>
  /\ \E c \in Values(read_back[2].extracted_metrics.all_claims) :
       c.name = <<"c","a","s","e","s">> /\ c.value = <<0, 1>>
  /\ panel.contradiction_rate = <<0, 1>>


(***************************************************************************)
(* Calls of the metric functions on bounded tables                         *)
(***************************************************************************)

MaxRows == 2

\* rows of an event table: case, user, duration in seconds, start and end in
\* seconds; a duration may be negative (an end recorded before its start), a
\* timestamp may be missing
EventRow(case_id, user, duration, start, end) ==
  [case_id |-> case_id, user |-> user, duration_seconds |-> duration,
   start_time |-> start, end_time |-> end]

MetricRows ==
  { EventRow(<<"1">>, <<"A","l","i","c","e">>, 100, 0, 100),
    EventRow(<<"1">>, <<"B","o","b">>, 900, 100, 400),
    EventRow(<<"2">>, <<"B","o","b">>, -100, 10 * Day, 10 * Day + 50),
    EventRow(<<"2">>, <<"A","l","i","c","e">>, 100, 20 * Day, NaT),
    EventRow(<<"3">>, <<"A","l","i","c","e">>, 0, NaT, NaT),
    EventRow(<<"3">>, <<"B","o","b">>, 100, 20 * Day, 20 * Day + 3600) }

MetricCols ==
  { <<<<"c","a","s","e","_","i","d">>, <<"u","s","e","r">>, <<"d","u","r","a","t","i","o","n","_","s","e","c","o","n","d","s">>, <<"s","t","a","r","t","_","t","i","m","e">>, <<"e","n","d","_","t","i","m","e">>>>,
    <<<<"u","s","e","r">>, <<"d","u","r","a","t","i","o","n","_","s","e","c","o","n","d","s">>, <<"s","t","a","r","t","_","t","i","m","e">>, <<"e","n","d","_","t","i","m","e">>>>,
    <<<<"c","a","s","e","_","i","d">>, <<"u","s","e","r">>, <<"s","t","a","r","t","_","t","i","m","e">>, <<"e","n","d","_","t","i","m","e">>>>,
    <<<<"c","a","s","e","_","i","d">>, <<"d","u","r","a","t","i","o","n","_","s","e","c","o","n","d","s">>, <<"s","t","a","r","t","_","t","i","m","e">>, <<"e","n","d","_","t","i","m","e">>>>,
    <<<<"c","a","s","e","_","i","d">>, <<"u","s","e","r">>, <<"d","u","r","a","t","i","o","n","_","s","e","c","o","n","d","s">>, <<"e","n","d","_","t","i","m","e">>>>,
    <<<<"c","a","s","e","_","i","d">>, <<"u","s","e","r">>, <<"d","u","r","a","t","i","o","n","_","s","e","c","o","n","d","s">>>> }

Cell(row, col) ==
  CASE col = <<"c","a","s","e","_","i","d">> -> row.case_id
    [] col = <<"u","s","e","r">> -> row.user
    [] col = <<"d","u","r","a","t","i","o","n","_","s","e","c","o","n","d","s">> -> row.duration_seconds
    [] col = <<"s","t","a","r","t","_","t","i","m","e">> -> row.start_time
    [] col = <<"e","n","d","_","t","i","m","e">> -> row.end_time

\* the table of the rows `rows` with the columns `cols`
Projected(cols, rows) ==
  Table(cols, [r \in 1..Len(rows) |->
                 [k \in 1..Len(cols) |-> Cell(rows[r], cols[k])]])

MetricTables ==
  {Projected(cols, rows) :
     cols \in MetricCols, rows \in BoundedSeq(MetricRows, MaxRows)}

\* the four metrics as compute_panel_metrics bundles them
PanelMetrics(df) ==
  [flow_efficiency |-> flow_efficiency(df),
   throughput_minutes |-> throughput_minutes(df),
   handoffs |-> handoffs(df),
   aging_buckets |-> case_aging_buckets(df)]

InitMetrics ==
  /\ pc = "metrics_call"
  /\ text = <<>>
  /\ table \in MetricTables
  /\ tol = DefaultTolerance
  /\ claims = <<>>
  /\ results = <<>>
  /\ summary = NoSummary
  /\ NoHttp

\* a metric function returns (or raises); the table handed in stays as it is
MetricReturned(fn, raised, value) ==
  /\ pc = "metrics_call"
  /\ pc' = "metrics_returned"
  /\ metric_out' = [fn |-> fn, raised |-> raised, value |-> value]
  /\ UNCHANGED <<kpiVars, httpVars, storeVars, colVars, schemaVars, dayVars>>

CallFlowEfficiency ==
  MetricReturned("flow_efficiency", FALSE, flow_efficiency(table))

CallCaseAgingBuckets ==
  MetricReturned("case_aging_buckets", FALSE, case_aging_buckets(table))

CallThroughputMinutes ==
  MetricReturned("throughput_minutes", FALSE, throughput_minutes(table))

CallHandoffs == MetricReturned("handoffs", FALSE, handoffs(table))

CallComputePanelMetrics ==
  MetricReturned("compute_panel_metrics", compute_panel_metrics_raises(table),
                 PanelMetrics(table))

NextMetrics ==
  \/ CallFlowEfficiency
  \/ CallCaseAgingBuckets
  \/ CallThroughputMinutes
  \/ CallHandoffs
  \/ CallComputePanelMetrics

SpecMetrics == InitMetrics /\ [][NextMetrics]_vars


(***************************************************************************)
(* Claims about the metric functions                                       *)
(***************************************************************************)

Returned(fn) == pc = "metrics_returned" /\ metric_out.fn = fn

\* C21: on every non-empty table flow_efficiency returns a value in [0, 1]
C21_FlowEfficiencyInUnitInterval ==
  (Returned("flow_efficiency") /\ NRows(table) > 0) =>
    /\ RLe(RInt(0), metric_out.value)
    /\ RLe(metric_out.value, RInt(1))

\* the distinct case ids of a table that has a case column
DistinctCases(df) ==
  IF HasCol(df, <<"c","a","s","e","_","i","d">>) THEN Values(Column(df, <<"c","a","s","e","_","i","d">>)) ELSE {}

\* C22: the three counts of case_aging_buckets sum to the number of distinct
\* case ids of the table
C22_BucketsCoverCases ==
  Returned("case_aging_buckets") =>
    metric_out.value.b07 + metric_out.value.b814 + metric_out.value.b14
      = Cardinality(DistinctCases(table))

\* no column of the table has the name of a candidate or contains one
Absent(df, candidates) ==
  \A i \in 1..Len(df.cols), k \in 1..Len(candidates) :
    ~Contains(Lower(candidates[k]), Lower(df.cols[i]))

\* a column the function needs is absent from the table
LacksColumn(fn, df) ==
  CASE fn = "flow_efficiency" ->
         Absent(df, DurationCandidates) \/ Absent(df, CaseCandidates)
    [] fn = "throughput_minutes" ->
         Absent(df, DurationCandidates) \/ Absent(df, CaseCandidates)
    [] fn = "case_aging_buckets" ->
         Absent(df, CaseCandidates) \/ Absent(df, StartCandidates)
    [] fn = "handoffs" ->
         Absent(df, CaseCandidates) \/ Absent(df, UserCandidates)

Neutral(fn) ==
  IF fn = "case_aging_buckets" THEN [b07 |-> 0, b814 |-> 0, b14 |-> 0]
  ELSE RInt(0)

MetricFunctions ==
  {"flow_efficiency", "throughput_minutes", "case_aging_buckets", "handoffs"}

PanelKey(fn) == IF fn = "case_aging_buckets" THEN "aging_buckets" ELSE fn

\* what the call that just returned gave for the function fn
ValueOf(out, fn) ==
  IF out.fn = "compute_panel_metrics" THEN out.value[PanelKey(fn)]
  ELSE out.value

\* C23: a metric function called on a table that lacks a column it needs does
\* not raise, returns its neutral value (as does the entry of
\* compute_panel_metrics for it) and leaves the table as it was
C23_NeutralWithoutColumns ==
  [][pc' = "metrics_returned" =>
       /\ table' = table
       /\ \A fn \in MetricFunctions :
            (metric_out'.fn \in {fn, "compute_panel_metrics"}
               /\ LacksColumn(fn, table)) =>
              /\ ~metric_out'.raised
              /\ ValueOf(metric_out', fn) = Neutral(fn)]_vars

\* throughput_minutes returned 0.0 for a table with rows and durations that
\* has no case column
C23_Witness ==
  /\ Returned("throughput_minutes")
  /\ NRows(table) > 0
  /\ Absent(table, CaseCandidates)
  /\ ~Absent(table, DurationCandidates)
  /\ SumSeq(Column(table, <<"d","u","r","a","t","i","o","n","_","s","e","c","o","n","d","s">>)) > 0
  /\ metric_out.value = RInt(0)


(***************************************************************************)
(* The day files of the trace store.  The clock counts hours of UTC; the   *)
(* server's local clock is tz_offset hours ahead of it.  A request stamps  *)
(* its record with datetime.utcnow() in after_request_telemetry and names  *)
(* the file by datetime.now() in write_trace_log.                          *)
(***************************************************************************)

MaxTicks == 3

MaxRequests == 2

HoursPerDay == 24

\* the first hour of the behaviours: 22:00 UTC of day 0
FirstHour == HoursPerDay - 2

\* the calendar day of an hour count, the YYYYMMDD of a file name
DateOf(hours) == hours \div HoursPerDay

\* datetime.now().strftime("%Y%m%d")
LocalDate(now, offset) == DateOf(now + offset)

\* the lines of a day file, none when the file does not exist
LinesOf(files, date) == IF date \in DOMAIN files THEN files[date] ELSE <<>>

\* the traces directory after write_trace_log appended to the file of `date`
AppendedTo(files, date, written) ==
  [d \in DOMAIN files \cup {date} |->
     IF d = date THEN written ELSE files[d]]

InitDays ==
  /\ pc = "serving"
  /\ text = <<>>
  /\ table = NoTable
  /\ tol = DefaultTolerance
  /\ claims = <<>>
  /\ results = <<>>
  /\ summary = NoSummary
  /\ env = [ENABLE_TRACING |-> TRUE, INSTRUMENTATION_AVAILABLE |-> TRUE,
            agents |-> {}, schema_dict |-> FALSE]
  /\ request = [dataset |-> "None", filters |-> NoFilters, handle |-> "none",
                references |-> "clean", headers |-> NoHeaders]
  /\ flask_g = NoG
  /\ response = NoResponse
  /\ returned = NoResponse
  /\ trace_call = NoCall
  /\ trace_file = <<>>
  /\ log_dir = {}
  /\ handlers = <<NoHandler>>
  /\ read_back = <<>>
  /\ panel = NoPanel
  /\ clock = FirstHour
  /\ col_candidates = <<>>
  /\ col_found = NoneStr
  /\ metric_out = <<>>
  /\ global_schema_dict = NoneObj
  /\ validate_cache = <<>>
  /\ callers = <<>>
  /\ tz_offset \in {-2, 0, 2}
  /\ day_files = <<>>

DaysFrame ==
  UNCHANGED <<pc, kpiVars, env, request, flask_g, response, returned,
              trace_call, trace_file, log_dir, colVars, metricVars,
              schemaVars, tz_offset>>

\* an hour passes
Tick ==
  /\ clock < FirstHour + MaxTicks
  /\ clock' = clock + 1
  /\ DaysFrame
  /\ UNCHANGED <<handlers, read_back, panel, day_files>>

\* after_request_telemetry builds the record of a request:
\* "timestamp_utc": datetime.utcnow().isoformat()
StampRecord ==
  /\ handlers[1].pc = "idle"
  /\ handlers[1].offset < MaxRequests
  /\ handlers' = [handlers EXCEPT
                    ![1].pc = "record_built",
                    ![1].offset = @ + 1,
                    ![1].record =
                      TraceRecord(NewMetadata(<<"api", "health">>), NoHeaders,
                                  clock)]
  /\ DaysFrame
  /\ UNCHANGED <<read_back, panel, clock, day_files>>

\* write_trace_log appends the record to traces-<local date>.jsonl
AppendToDayFile ==
  /\ handlers[1].pc = "record_built"
  /\ handlers' = [handlers EXCEPT ![1].pc = "idle"]
  /\ \E written \in
         write_trace_log(env, handlers[1].record, "none",
                         LinesOf(day_files,
                                 LocalDate(clock, tz_offset))).files :
       day_files' = AppendedTo(day_files, LocalDate(clock, tz_offset), written)
  /\ DaysFrame
  /\ UNCHANGED <<read_back, panel, clock>>

\* rollup_today: the rollup of traces-<local date>.jsonl
RollupOfToday ==
  /\ read_back' = read_traces(LocalDate(clock, tz_offset) \in DOMAIN day_files,
                              LinesOf(day_files, LocalDate(clock, tz_offset)))
  /\ panel' = IF LocalDate(clock, tz_offset) \in DOMAIN day_files
              THEN Rolled(read_traces(TRUE,
                                      LinesOf(day_files,
                                              LocalDate(clock, tz_offset))))
              ELSE [date |-> "today", trace_count |-> 0,
                    error |-> "No traces for today"]
  /\ DaysFrame
  /\ UNCHANGED <<handlers, clock, day_files>>

NextDays == Tick \/ StampRecord \/ AppendToDayFile \/ RollupOfToday

SpecDays == InitDays /\ [][NextDays]_vars

\* C26: every record of the file of a day carries a timestamp_utc of that UTC
\* day, whatever the offset of the local clock, and a rollup reads records of
\* one UTC day only
C26_DayFileHoldsOneUtcDay ==
  /\ \A date \in DOMAIN day_files :
       \A i \in 1..Len(day_files[date]) :
         DateOf(day_files[date][i].record.timestamp_utc) = date
  /\ \A i, j \in 1..Len(read_back) :
       DateOf(read_back[i].timestamp_utc) = DateOf(read_back[j].timestamp_utc)

(***************************************************************************)
(* schema_dict.py: the vocabulary of the loaded tables                     *)
(***************************************************************************)

\* the candidate column names _build_schema looks up for each dataset
SchemaCandidates ==
  [salesforce |->
     [activities |-> <<<<"a","c","t","i","v","i","t","y">>, <<"s","t","e","p">>, <<"o","r","i","g","i","n","a","l","_","a","c","t","i","v","i","t","y">>>>,
      teams |-> <<<<"t","e","a","m">>, <<"t","e","a","m","s">>>>,
      users |-> <<<<"u","s","e","r">>, <<"r","e","s","o","u","r","c","e">>, <<"a","g","e","n","t","_","p","r","o","f","i","l","e","_","i","d">>>>,
      processes |-> <<<<"p","r","o","c","e","s","s","_","n","a","m","e">>, <<"p","r","o","c","e","s","s">>, <<"a","p","p","l","i","c","a","t","i","o","n">>, <<"w","i","n","d","o","w">>>>,
      window_titles |-> <<<<"w","i","n","d","o","w","_","t","i","t","l","e">>, <<"t","i","t","l","e">>>>],
   amadeus |->
     [activities |-> <<<<"a","c","t","i","v","i","t","y">>, <<"s","t","e","p">>>>,
      teams |-> <<<<"t","e","a","m">>>>,
      users |-> <<<<"r","e","s","o","u","r","c","e">>, <<"u","s","e","r">>, <<"a","g","e","n","t">>>>,
      processes |-> <<<<"p","r","o","c","e","s","s","_","n","a","m","e">>, <<"a","p","p","l","i","c","a","t","i","o","n">>, <<"p","r","o","c","e","s","s">>>>,
      window_titles |-> <<<<"t","i","t","l","e">>, <<"w","i","n","d","o","w","_","t","i","t","l","e">>>>]]

\* the entry of a dataset before its table is read
EmptyVocabulary ==
  [columns |-> {}, activities |-> {}, teams |-> {}, users |-> {},
   processes |-> {}, window_titles |-> {}]

\* set(df[col].dropna().unique()) under `if col:`
UniqueValues(df, col) ==
  IF col = NoneStr
  THEN {}
  ELSE {Column(df, col)[r] : r \in 1..NRows(df)} \ {NoneStr}

\* the entry _build_schema fills in for one dataset; a table that is None
\* leaves the empty entry
DatasetVocabulary(df, candidates) ==
  IF df = NoneObj
  THEN EmptyVocabulary
  ELSE [columns |-> {df.cols[i] : i \in 1..Len(df.cols)},
        activities |-> UniqueValues(df, find_column(df, candidates.activities)),
        teams |-> UniqueValues(df, find_column(df, candidates.teams)),
        users |-> UniqueValues(df, find_column(df, candidates.users)),
        processes |-> UniqueValues(df, find_column(df, candidates.processes)),
        window_titles |->
          UniqueValues(df, find_column(df, candidates.window_titles))]

\* the local dict `schema` of _build_schema after `stage` of its parts:
\* 0 the empty skeleton, 1 the Salesforce entry filled, 2 both entries filled
SchemaAfter(self, stage) ==
  [salesforce |->
     IF stage >= 1
     THEN DatasetVocabulary(self.salesforce_df, SchemaCandidates.salesforce)
     ELSE EmptyVocabulary,
   amadeus |->
     IF stage >= 2
     THEN DatasetVocabulary(self.amadeus_df, SchemaCandidates.amadeus)
     ELSE EmptyVocabulary]

\* the dict _build_schema returns
_build_schema(self) == SchemaAfter(self, 2)

\* SchemaDict(salesforce_df, amadeus_df) constructed at time `now`
SchemaDict(salesforce_df, amadeus_df, now) ==
  [salesforce_df |-> salesforce_df, amadeus_df |-> amadeus_df,
   last_refresh |-> now,
   _schema |-> _build_schema([salesforce_df |-> salesforce_df,
                              amadeus_df |-> amadeus_df]),
   built_at |-> now]

\* the characters of word.strip(',.!?;:"()[]{}')
StripSet ==
  {",", ".", "!", "?", ";", ":", "\"", "(", ")", "[", "]", "{", "}"}

\* str.strip(chars): the characters are removed from both ends
RECURSIVE StripChars(_)
StripChars(word) ==
  IF word = <<>> THEN word
  ELSE IF Head(word) \in StripSet THEN StripChars(Tail(word))
  ELSE IF word[Len(word)] \in StripSet
       THEN StripChars(SubSeq(word, 1, Len(word) - 1))
  ELSE word

LowerLetters ==
  {"a", "b", "c", "d", "e", "f", "g", "h", "i", "j", "k", "l", "m", "n", "o",
   "p", "q", "r", "s", "t", "u", "v", "w", "x", "y", "z"}

\* '_' in cleaned_word or (cleaned_word[0].islower() and
\*                         any(c.isupper() for c in cleaned_word))
LooksLikeColumn(word) ==
  \/ \E i \in 1..Len(word) : word[i] = "_"
  \/ /\ word[1] \in LowerLetters
     /\ \E i \in 1..Len(word) : LowerChar(word[i]) # word[i]

LowerAll(S) == {Lower(x) : x \in S}

\* the column loop: a cleaned word longer than two characters that is no
\* column of the dataset and looks like a column name is reported
ColumnFindings(schema, words) ==
  LET Unknown(word) ==
        /\ Len(StripChars(word)) > 2
        /\ Lower(StripChars(word)) \notin LowerAll(schema.columns)
        /\ LooksLikeColumn(StripChars(word))
      flagged == SelectSeq(words, Unknown)
  IN  [i \in 1..Len(flagged) |->
         [type |-> "column", value |-> StripChars(flagged[i]),
          context |-> "potential_column_reference"]]

\* re.findall(r'"([^"]+)"', text) + re.findall(r"'([^']+)'", text), for a
\* text whose quoted strings hold no blank
QuotedIn(words, mark) ==
  LET Quoted(word) ==
        /\ Len(word) > 2
        /\ word[1] = mark
        /\ word[Len(word)] = mark
        /\ \A i \in 2..(Len(word) - 1) : word[i] # mark
      found == SelectSeq(words, Quoted)
  IN  [i \in 1..Len(found) |-> SubSeq(found[i], 2, Len(found[i]) - 1)]

quoted_strings(words) == QuotedIn(words, "\"") \o QuotedIn(words, "'")

\* `sub in text_lower`
InTextLower(sub, words) ==
  \E i \in 1..Len(words) : Contains(sub, Lower(words[i]))

\* the entries the loop over quoted_strings appends for one quoted string
QuotedFinding(schema, quoted, words) ==
  (IF /\ quoted \notin schema.teams
      /\ schema.teams # {}
      /\ Lower(quoted) \notin LowerAll(schema.teams)
      /\ (InTextLower(<<"t","e","a","m">>, words) \/ InTextLower(<<"g","r","o","u","p">>, words))
   THEN <<[type |-> "team", value |-> quoted,
           context |-> "quoted_team_reference"]>>
   ELSE <<>>)
  \o
  (IF /\ quoted \notin schema.activities
      /\ schema.activities # {}
      /\ Lower(quoted) \notin LowerAll(schema.activities)
      /\ (InTextLower(<<"a","c","t","i","v","i","t","y">>, words) \/ InTextLower(<<"s","t","e","p">>, words)
            \/ InTextLower(<<"p","r","o","c","e","s","s">>, words))
   THEN <<[type |-> "activity", value |-> quoted,
           context |-> "quoted_activity_reference"]>>
   ELSE <<>>)

RECURSIVE QuotedFindings(_, _, _)
QuotedFindings(schema, quoted, words) ==
  IF quoted = <<>> THEN <<>>
  ELSE QuotedFinding(schema, Head(quoted), words)
         \o QuotedFindings(schema, Tail(quoted), words)

\* the dict validate_references returns from the vocabulary it read: `seen`
\* is self._schema as read by `dataset not in self._schema`, `entry` is
\* self._schema[dataset] as read afterwards
Validated(seen, entry, words, dataset) ==
  IF dataset \notin DOMAIN seen
  THEN [has_hallucinations |-> FALSE, unknown_entities |-> <<>>,
        checked |-> FALSE, reason |-> "Unknown dataset"]
  ELSE [has_hallucinations |->
          ColumnFindings(entry, words)
            \o QuotedFindings(entry, quoted_strings(words), words) # <<>>,
        unknown_entities |->
          ColumnFindings(entry, words)
            \o QuotedFindings(entry, quoted_strings(words), words),
        checked |-> TRUE, dataset |-> dataset]

(***************************************************************************)
(* Callers of one SchemaDict: refresh_if_needed and the reads that call it *)
(***************************************************************************)

cache_ttl == 600

\* the clock advances by one TTL at a time
TickSeconds == cache_ttl

MaxCallers == 2
MaxCalls == 2
MaxElapsed == 4

SalesforceTable ==
  Table(<<<<"a","c","t","i","v","i","t","y">>, <<"t","e","a","m">>>>,
        << <<<<"C","a","l","l">>, <<"O","p","s">>>>, <<<<"M","a","i","l">>, NoneStr>> >>)

AmadeusTable == Table(<<<<"s","t","e","p">>>>, << <<<<"B","o","o","k">>>> >>)

\* an answer that names a team and a column the tables do not have
AnswerWords ==
  <<<<"t","e","a","m">>, <<"'">> \o <<"S","a","l","e","s">> \o <<"'">>, <<"c","a","s","e","_","i","d",",">>, <<"a","c","t","i","v","i","t","y">>>>

\* the reads of the vocabulary: validate_references, get_schema and
\* get_valid_values with their arguments
SchemaReads ==
  { [op |-> "validate_references", dataset |-> "salesforce",
     entity_type |-> "None"],
    [op |-> "validate_references", dataset |-> "unknown",
     entity_type |-> "None"],
    [op |-> "get_schema", dataset |-> "amadeus", entity_type |-> "None"],
    [op |-> "get_valid_values", dataset |-> "salesforce",
     entity_type |-> "teams"] }

NoRead == [op |-> "None", dataset |-> "None", entity_type |-> "None"]

\* a thread that is in no call of the SchemaDict; `began`, `seen_refresh`,
\* `rebuilt` and `answered_from` record what its call saw
NoCaller ==
  [pc |-> "idle", calls |-> 0, read |-> NoRead, began |-> 0,
   seen_refresh |-> 0, rebuilt |-> FALSE, stage |-> 0,
   local |-> <<>>, seen |-> <<>>, out |-> <<>>, answered_from |-> 0]

InitSchema ==
  /\ pc = "schema"
  /\ text = <<>>
  /\ table = NoTable
  /\ tol = DefaultTolerance
  /\ claims = <<>>
  /\ results = <<>>
  /\ summary = NoSummary
  /\ NoRequest
  /\ trace_file = <<>>
  /\ log_dir = {}
  /\ handlers = <<>>
  /\ read_back = <<>>
  /\ panel = NoPanel
  /\ clock = 0
  /\ col_candidates = <<>>
  /\ col_found = NoneStr
  /\ metric_out = <<>>
  /\ \E amadeus_df \in {AmadeusTable, NoneObj} :
       global_schema_dict = SchemaDict(SalesforceTable, amadeus_df, 0)
  /\ validate_cache = <<>>
  /\ \E n \in 1..MaxCallers : callers = [c \in 1..n |-> NoCaller]
  /\ tz_offset = 0
  /\ day_files = <<>>

SchemaFrame ==
  UNCHANGED <<pc, kpiVars, httpVars, log_dir, handlers, read_back, panel,
              colVars, metricVars, validate_cache, dayVars>>

\* time passes
TickSchema ==
  /\ clock < MaxElapsed * TickSeconds
  /\ clock' = clock + TickSeconds
  /\ SchemaFrame
  /\ UNCHANGED <<global_schema_dict, callers>>

\* `time.time() - self.last_refresh > self.cache_ttl`
Expired(self, now) == now - self.last_refresh > cache_ttl

\* the reads entered so far, by all threads
CallsMade(threads) == SumSeq([c \in 1..Len(threads) |-> threads[c].calls])

\* a thread enters a read; its first statement is refresh_if_needed, which
\* compares the clock with last_refresh
CallRead(c) ==
  /\ callers[c].pc = "idle"
  /\ CallsMade(callers) < MaxCalls
  /\ \E read \in SchemaReads :
       callers' =
         [callers EXCEPT
            ![c] = [pc |-> IF Expired(global_schema_dict, clock)
                           THEN "build" ELSE "read",
                    calls |-> callers[c].calls + 1,
                    read |-> read,
                    began |-> clock,
                    seen_refresh |-> global_schema_dict.last_refresh,
                    rebuilt |-> Expired(global_schema_dict, clock),
                    stage |-> 0,
                    local |-> SchemaAfter(global_schema_dict, 0),
                    seen |-> <<>>, out |-> <<>>, answered_from |-> 0]]
  /\ SchemaFrame
  /\ UNCHANGED <<global_schema_dict, clock>>

\* self._schema while a thread fills the local dict `schema` in _build_schema
\* (the variant writes through to the attribute)
BuiltInPlace(schema, local) == local
WhileBuilding(schema, local) == schema

\* _build_schema fills in the entry of the next dataset
BuildPart(c) ==
  /\ callers[c].pc = "build"
  /\ callers[c].stage < 2
  /\ callers' =
       [callers EXCEPT
          ![c].stage = @ + 1,
          ![c].local = SchemaAfter(global_schema_dict, callers[c].stage + 1),
          ![c].answered_from = clock]
  /\ global_schema_dict' =
       [global_schema_dict EXCEPT
          !._schema =
            WhileBuilding(@, SchemaAfter(global_schema_dict,
                                         callers[c].stage + 1))]
  /\ SchemaFrame
  /\ UNCHANGED clock

\* self._schema = self._build_schema(): the returned dict becomes the
\* vocabulary; built_at records when its last table was read
Publish(c) ==
  /\ callers[c].pc = "build"
  /\ callers[c].stage = 2
  /\ callers' = [callers EXCEPT ![c].pc = "stamp"]
  /\ global_schema_dict' =
       [global_schema_dict EXCEPT
          !._schema = callers[c].local,
          !.built_at = callers[c].answered_from]
  /\ SchemaFrame
  /\ UNCHANGED clock

\* self.last_refresh = time.time()
Stamp(c) ==
  /\ callers[c].pc = "stamp"
  /\ callers' = [callers EXCEPT ![c].pc = "read"]
  /\ global_schema_dict' = [global_schema_dict EXCEPT !.last_refresh = clock]
  /\ SchemaFrame
  /\ UNCHANGED clock

\* what get_schema and get_valid_values return from self._schema
ReadOut(schema, read) ==
  IF read.op = "get_schema"
  THEN Get(schema, read.dataset, <<>>)
  ELSE IF read.dataset \in DOMAIN schema
            /\ read.entity_type \in DOMAIN schema[read.dataset]
       THEN schema[read.dataset][read.entity_type]
       ELSE {}

\* the first read of self._schema after refresh_if_needed: in
\* validate_references `dataset not in self._schema`, which returns at once
\* for an unknown dataset
ReadSchema(c) ==
  /\ callers[c].pc = "read"
  /\ callers' =
       [callers EXCEPT
          ![c].seen = global_schema_dict._schema,
          ![c].answered_from = global_schema_dict.built_at,
          ![c].pc =
            IF /\ callers[c].read.op = "validate_references"
               /\ callers[c].read.dataset \in DOMAIN global_schema_dict._schema
            THEN "entry" ELSE "done",
          ![c].out =
            IF callers[c].read.op = "validate_references"
            THEN Validated(global_schema_dict._schema, EmptyVocabulary,
                           AnswerWords, callers[c].read.dataset)
            ELSE ReadOut(global_schema_dict._schema, callers[c].read)]
  /\ SchemaFrame
  /\ UNCHANGED <<global_schema_dict, clock>>

\* validate_references: schema = self._schema[dataset], and the checks on it
ReadEntry(c) ==
  /\ callers[c].pc = "entry"
  /\ callers' =
       [callers EXCEPT
          ![c].pc = "done",
          ![c].seen = global_schema_dict._schema,
          ![c].answered_from = global_schema_dict.built_at,
          ![c].out =
            Validated(callers[c].seen,
                      global_schema_dict._schema[callers[c].read.dataset],
                      AnswerWords, callers[c].read.dataset)]
  /\ SchemaFrame
  /\ UNCHANGED <<global_schema_dict, clock>>

\* the call returns
ReturnRead(c) ==
  /\ callers[c].pc = "done"
  /\ callers' = [callers EXCEPT
                   ![c] = [NoCaller EXCEPT !.calls = callers[c].calls]]
  /\ SchemaFrame
  /\ UNCHANGED <<global_schema_dict, clock>>

NextSchema ==
  \/ TickSchema
  \/ \E c \in 1..Len(callers) :
       \/ CallRead(c)
       \/ BuildPart(c)
       \/ Publish(c)
       \/ Stamp(c)
       \/ ReadSchema(c)
       \/ ReadEntry(c)
       \/ ReturnRead(c)

SpecSchema == InitSchema /\ [][NextSchema]_vars

\* every _schema in sight is `complete`: the published one, the one each
\* reader has read, and the entry validate_references has answered from
OnlyComplete(complete, threads) ==
  /\ global_schema_dict._schema = complete
  /\ \A c \in 1..Len(threads) :
       /\ threads[c].seen \in {<<>>, complete}
       /\ (threads[c].pc = "done"
             /\ threads[c].read.op = "validate_references")
            => threads[c].out =
                 Validated(complete,
                           Get(complete, threads[c].read.dataset,
                               EmptyVocabulary),
                           AnswerWords, threads[c].read.dataset)

\* C28: under every interleaving of the callers' steps, two rebuilds at once
\* included, the published _schema is the complete schema of the loaded
\* tables, and so is every _schema a reader has read and every entry
\* validate_references has answered from
C28_NoPartialVocabulary ==
  OnlyComplete(_build_schema(global_schema_dict), callers)

\* two callers both found the TTL expired; one is half through its rebuild
\* while the other, its own rebuild published, is between the two reads of
\* validate_references
C28_Witness ==
  \E c, d \in 1..Len(callers) :
    /\ c # d
    /\ callers[c].rebuilt /\ callers[c].pc = "build" /\ callers[c].stage = 1
    /\ callers[d].rebuilt /\ callers[d].pc = "entry"
    /\ callers[d].seen = global_schema_dict._schema

\* a read rebuilt exactly when more than cache_ttl had elapsed since
\* last_refresh when it began
RebuiltWhenExpired ==
  \A c \in 1..Len(callers) :
    callers[c].pc # "idle"
      => (callers[c].rebuilt
            <=> callers[c].began - callers[c].seen_refresh > cache_ttl)

\* a step changes the vocabulary or last_refresh only for a read that found
\* the TTL expired, and the reset of last_refresh is to the current time
OnlyRebuildChanges ==
  global_schema_dict' # global_schema_dict
    => /\ \E c \in 1..Len(callers) :
            callers[c].rebuilt /\ callers'[c].pc # callers[c].pc
       /\ \/ global_schema_dict'.last_refresh = global_schema_dict.last_refresh
          \/ global_schema_dict'.last_refresh = clock

\* no read is answered from a vocabulary built more than cache_ttl before the
\* read began
AnsweredFromFresh ==
  \A c \in 1..Len(callers) :
    callers[c].pc = "done"
      => callers[c].began - callers[c].answered_from <= cache_ttl

\* C27: every read of the vocabulary rebuilds it and resets last_refresh to
\* the current time exactly when more than cache_ttl (600 s) has elapsed since
\* last_refresh, and otherwise leaves both unchanged; hence no read is
\* answered from a vocabulary built more than 600 s before the read began
C27_RefreshedWithinTtl ==
  /\ [](RebuiltWhenExpired /\ AnsweredFromFresh)
  /\ [][OnlyRebuildChanges]_vars

(***************************************************************************)
(* The global SchemaDict and cached_validate_references                    *)
(***************************************************************************)

Digit(d) ==
  CASE d = 0 -> "0" [] d = 1 -> "1" [] d = 2 -> "2" [] d = 3 -> "3"
    [] d = 4 -> "4" [] d = 5 -> "5" [] d = 6 -> "6" [] d = 7 -> "7"
    [] d = 8 -> "8" [] d = 9 -> "9"

\* str(n) of an int
RECURSIVE StrOfInt(_)
StrOfInt(n) ==
  IF n < 0 THEN <<"-">> \o StrOfInt(0 - n)
  ELSE IF n < 10 THEN <<Digit(n)>>
  ELSE StrOfInt(n \div 10) \o <<Digit(n % 10)>>

\* the values of hash(text) the callers pass
TextHashes == {-42, 17}

KnownDatasets == {"salesforce", "amadeus"}

\* the SchemaDict after refresh_if_needed ran at time `now`
Refreshed(self, now) ==
  IF Expired(self, now)
  THEN [self EXCEPT !._schema = _build_schema(self), !.built_at = now,
                    !.last_refresh = now]
  ELSE self

\* the dict validate_references(text, dataset) returns at time `now`
validate_references(self, words, dataset, now) ==
  Validated(Refreshed(self, now)._schema,
            Get(Refreshed(self, now)._schema, dataset, EmptyVocabulary),
            words, dataset)

\* the body of cached_validate_references, run on a cache miss
cached_validate_references(schema_dict, text_hash, dataset, now) ==
  IF schema_dict = NoneObj
  THEN [has_hallucinations |-> FALSE, unknown_entities |-> <<>>,
        checked |-> FALSE, reason |-> "Schema dictionary not initialized"]
  ELSE validate_references(schema_dict, <<StrOfInt(text_hash)>>, dataset, now)

\* functools.lru_cache: the stored result of a key that was seen, the result
\* of the body otherwise (fewer keys than maxsize are in use, so no entry is
\* evicted)
LruCached(cache, key, computed) ==
  IF key \in DOMAIN cache THEN cache[key] ELSE computed

\* the cache after the call: a miss stores the result under the key
LruStored(cache, key, computed) ==
  [k \in DOMAIN cache \cup {key} |->
     IF k \in DOMAIN cache THEN cache[k] ELSE computed]

InitCache ==
  /\ pc = "cache"
  /\ text = <<>>
  /\ table = NoTable
  /\ tol = DefaultTolerance
  /\ claims = <<>>
  /\ results = <<>>
  /\ summary = NoSummary
  /\ NoRequest
  /\ trace_file = <<>>
  /\ log_dir = {}
  /\ handlers = <<>>
  /\ read_back = <<>>
  /\ panel = NoPanel
  /\ clock = 0
  /\ col_candidates = <<>>
  /\ col_found = NoneStr
  /\ metric_out = <<>>
  /\ global_schema_dict = NoneObj
  /\ validate_cache = <<>>
  /\ callers = <<NoCaller>>
  /\ tz_offset = 0
  /\ day_files = <<>>

\* time passes
TickCache ==
  /\ clock < MaxElapsed * TickSeconds
  /\ clock' = clock + TickSeconds
  /\ SchemaFrame
  /\ UNCHANGED <<global_schema_dict, callers>>

\* build_schema_dict(salesforce_df, amadeus_df) sets the global instance
build_schema_dict ==
  /\ \E amadeus_df \in {AmadeusTable, NoneObj} :
       global_schema_dict' = SchemaDict(SalesforceTable, amadeus_df, clock)
  /\ UNCHANGED <<pc, kpiVars, httpVars, storeVars, colVars, metricVars,
                 validate_cache, callers, dayVars>>

\* a call of cached_validate_references(text_hash, dataset); on a miss with
\* the global instance set, validate_references refreshes the instance first
CallCachedValidate(text_hash, dataset) ==
  /\ callers[1].pc = "idle"
  /\ callers' =
       <<[NoCaller EXCEPT
            !.pc = "done",
            !.read = [op |-> "cached_validate_references",
                      dataset |-> dataset, text_hash |-> text_hash],
            !.out =
              LruCached(validate_cache, <<text_hash, dataset>>,
                        cached_validate_references(global_schema_dict,
                                                   text_hash, dataset,
                                                   clock))]>>
  /\ validate_cache' =
       LruStored(validate_cache, <<text_hash, dataset>>,
                 cached_validate_references(global_schema_dict, text_hash,
                                            dataset, clock))
  /\ global_schema_dict' =
       IF <<text_hash, dataset>> \in DOMAIN validate_cache
            \/ global_schema_dict = NoneObj
       THEN global_schema_dict
       ELSE Refreshed(global_schema_dict, clock)
  /\ UNCHANGED <<pc, kpiVars, httpVars, storeVars, colVars, metricVars,
                 dayVars>>

\* the caller takes the result
ReturnCached ==
  /\ callers[1].pc = "done"
  /\ callers' = <<NoCaller>>
  /\ UNCHANGED <<pc, kpiVars, httpVars, storeVars, colVars, metricVars,
                 global_schema_dict, validate_cache, dayVars>>

NextCache ==
  \/ TickCache
  \/ build_schema_dict
  \/ ReturnCached
  \/ \E text_hash \in TextHashes, dataset \in KnownDatasets :
       CallCachedValidate(text_hash, dataset)

SpecCache == InitCache /\ [][NextCache]_vars

\* C30: once build_schema_dict has set the global instance, a call of
\* cached_validate_references(h, d) for a known dataset d returns a result
\* with checked = true, whatever calls were made before
C30_CheckedOnceInitialised ==
  [][(/\ global_schema_dict # NoneObj
      /\ callers[1].pc = "idle"
      /\ callers'[1].pc = "done"
      /\ callers'[1].read.dataset \in KnownDatasets)
       => callers'[1].out.checked]_vars

====
